---- MODULE Spec2Model ----
(***************************************************************************)
(* State-machine model of GameEntity (eldinor/babai): hierarchical          *)
(* transforms with lazily cached local/world matrices, render sync and      *)
(* rate-limited rotation.                                                   *)
(*                                                                          *)
(* Numbers are fixed point: one unit is the setters' tolerance 0.0001, so   *)
(* 1.0 is 10000 units.  Vectors keep two of their three components.         *)
(* A matrix is kept symbolically as the sequence of the local transforms    *)
(* <<scaling, rotation, position>> it is the product of, child first; the   *)
(* empty sequence is the all-zero matrix that `new Matrix()` builds.        *)
(***************************************************************************)
EXTENDS Integers, Sequences, FiniteSets, TLC

\* ---------------------------------------------------------------- bounds
NumEntities == 3
\* Changes of a transform or of the hierarchy in one behaviour.
MaxChanges == 3
\* Entities that hold a render component at the same time.
MaxRendered == 1
\* Calls of one steering loop.  An orientation is one of 16, and only the
\* orientation changes from call to call, so a loop that has not returned
\* true in 17 calls never does.
MaxCalls == 17
\* Failures of a synchronization in one behaviour.
MaxDiagnostics == 2

\* ------------------------------------------------------------- constants
Null == 0
\* undefined: an argument that is omitted, the value of a Map miss
Undefined == -1
Epsilon == 1
One == 10000

Entities == 1..NumEntities

VARIABLES
    parent,                  \* entity -> its parent entity, or Null
    children,                \* entity -> sequence of child entities
    position,                \* entity -> _position
    rotation,                \* entity -> _rotation
    scaling,                 \* entity -> _scaling
    localMatrix,             \* entity -> _localMatrix
    worldMatrix,             \* entity -> _worldMatrix
    localMatrixDirty,        \* entity -> _localMatrixDirty
    worldMatrixDirty,        \* entity -> _worldMatrixDirty
    transformDirty,          \* entity -> _transformDirty
    renderComponent,         \* entity -> _renderComponent, or Null
    renderComponentCallback, \* entity -> _renderComponentCallback, or Null
    rendered,                \* entity -> the component and transform its callback was last given
    uuid,                    \* entity -> _uuid, or Null
    name,                    \* entity -> name
    neighbors,               \* entity -> sequence of neighbor entities
    generated,               \* the number of identifiers _generateUUID has made
    manager,                 \* entity -> manager, or NoValue
    outbox,                  \* the argument lists manager.sendMessage was called with
    diagnostics,             \* the number of console.error calls
    synced,                  \* entity -> its true world transform when its callback last ran
    saved,                   \* entity -> the set of the record toJSON made of it, empty before
    stage,                   \* entity -> "live", or "imported" / "resolved" once a record was loaded into it
    draft,                   \* the characters of the identifier _generateUUID is writing
    random,                  \* the source of Math.random: the next draw and the step to the one after
    last,                    \* the last call and its outcome, in the specifications that record it
    spent                    \* transform and hierarchy changes made so far, where they are bounded

hierVars   == <<parent, children>>
trsVars    == <<position, rotation, scaling>>
cacheVars  == <<localMatrix, worldMatrix, localMatrixDirty, worldMatrixDirty, transformDirty>>
renderVars == <<renderComponent, renderComponentCallback, rendered>>
idVars     == <<uuid, name, neighbors, generated>>
messageVars == <<manager, outbox, diagnostics>>
entityVars == <<hierVars, trsVars, cacheVars, renderVars, idVars, messageVars>>
fileVars   == <<saved, stage>>
draftVars  == <<draft, random>>
vars       == <<entityVars, synced, fileVars, draftVars, last, spent>>

\* ------------------------------------------------------------ sequences
Range(s) == {s[i] : i \in 1..Len(s)}

\* Array.prototype.indexOf: the first index holding x, 0 when absent.
IndexOf(s, x) ==
    IF x \in Range(s) THEN CHOOSE i \in 1..Len(s) : s[i] = x /\ \A j \in 1..(i - 1) : s[j] # x
    ELSE 0

\* Array.prototype.splice(index, 1)
Splice(s, i) == [j \in 1..(Len(s) - 1) |-> IF j < i THEN s[j] ELSE s[j + 1]]

\* ------------------------------------------------------ vectors, quaternions
Abs(n) == IF n < 0 THEN -n ELSE n

\* Scalar.WithinEpsilon
WithinEpsilon(a, b) == Abs(a - b) <= Epsilon

\* Vector3.equalsWithEpsilon(value, 0.0001)
VecEqualsWithEpsilon(a, b) == \A i \in 1..2 : WithinEpsilon(a[i], b[i])

Zero3 == <<0, 0>>
Ones3 == <<One, One>>

\* A quaternion of the model is a rotation about the x or the y axis by a
\* multiple of 45 degrees: [ax, k] is cos(k*22.5deg) + sin(k*22.5deg)*axis,
\* so that k and k + 8 are q and -q, the same rotation.
Sin16 ==
    <<3827, 7071, 9239, 10000, 9239, 7071, 3827, 0,
      -3827, -7071, -9239, -10000, -9239, -7071, -3827, 0>>
SinQ(k) == Sin16[((k + 15) % 16) + 1]
CosQ(k) == SinQ(k + 4)
QuatX(q) == IF q.ax = "x" THEN SinQ(q.k) ELSE 0
QuatY(q) == IF q.ax = "y" THEN SinQ(q.k) ELSE 0
QuatW(q) == CosQ(q.k)
Identity == [ax |-> "y", k |-> 0]
NullQuat == [ax |-> "null", k |-> 0]

\* The number NaN, and the vector and the quaternion whose components are
\* NaN.  No arithmetic is done on NaN: every operator that meets it gives
\* NaN, as the arithmetic of the language does.
NaN == -999999
NaNVec == <<NaN, NaN>>
NaNQuat == [ax |-> "NaN", k |-> 0]
IsNaN(q) == q.ax = "NaN"

\* Quaternion.equalsWithEpsilon(value, 0.0001)
QuatEqualsWithEpsilon(a, b) ==
    /\ WithinEpsilon(QuatX(a), QuatX(b))
    /\ WithinEpsilon(QuatY(a), QuatY(b))
    /\ WithinEpsilon(QuatW(a), QuatW(b))

\* ---------------------------------------------------------------- matrices
ZeroMatrix == << >>

\* Matrix.ComposeToRef(scaling, rotation, position, result)
Compose(s, r, p) == << <<s, r, p>> >>

\* a.multiplyToRef(b, result): a first, then b
Multiply(a, b) == IF a = ZeroMatrix \/ b = ZeroMatrix THEN ZeroMatrix ELSE a \o b

\* -------------------------------------------------------------------- state
\* The fields of every entity as one value, which the methods below map to
\* the fields after the call.
State ==
    [parent |-> parent, children |-> children,
     position |-> position, rotation |-> rotation, scaling |-> scaling,
     localMatrix |-> localMatrix, worldMatrix |-> worldMatrix,
     localMatrixDirty |-> localMatrixDirty, worldMatrixDirty |-> worldMatrixDirty,
     transformDirty |-> transformDirty,
     renderComponent |-> renderComponent,
     renderComponentCallback |-> renderComponentCallback,
     rendered |-> rendered,
     uuid |-> uuid, name |-> name, neighbors |-> neighbors, generated |-> generated,
     manager |-> manager, outbox |-> outbox, diagnostics |-> diagnostics]

\* What a call gives its caller: the fields after it, the error it threw
\* ("none" when it returned), and how often it invoked the render callback.
Result(s, err, calls) == [s |-> s, err |-> err, calls |-> calls]

NoValue == "null"

\* ------------------------------------------------------------ matrix cache
\* The first index of children[e] that holds no entity (an identifier that
\* fromJSON put there, or undefined), 0 when every child is an entity.
FirstNonEntity(s, e) ==
    LET bad == {i \in 1..Len(s.children[e]) : s.children[e][i] \notin Entities}
    IN IF bad = {} THEN 0 ELSE CHOOSE i \in bad : \A j \in bad : i <= j

\* The assignment child._worldMatrixDirty = true throws a TypeError, in the
\* strict mode of a class body, when child is a string or undefined.
ChildrenWalkFails(s, e) == FirstNonEntity(s, e) # 0

\* The loop over the children that also marks the children's children.
MarkGrandchildren(s, e) ==
    LET kids == Range(s.children[e]) \cap Entities
        marked == kids \cup UNION {Range(s.children[c]) \cap Entities : c \in kids}
    IN [s EXCEPT !.worldMatrixDirty =
           [x \in Entities |-> IF x \in marked THEN TRUE ELSE @[x]]]

\* for (const child of this.children) child._worldMatrixDirty = true
\* It marks the children in front of the one it fails on.
MarkChildren(s, e) ==
    LET stop == IF ChildrenWalkFails(s, e) THEN FirstNonEntity(s, e)
                ELSE Len(s.children[e]) + 1
        marked == {s.children[e][i] : i \in 1..(stop - 1)}
    IN [s EXCEPT !.worldMatrixDirty =
           [x \in Entities |-> IF x \in marked THEN TRUE ELSE @[x]]]

\* What the walk over the children of e throws
WalkError(s, e) == IF ChildrenWalkFails(s, e) THEN "TypeError" ELSE "none"

\* _markDirty that leaves _worldMatrixDirty alone.
markDirtyLocalOnly(s, e) == [s EXCEPT !.localMatrixDirty[e] = TRUE]

\* _markDirty that also marks the parent.
markDirtyWithParent(s, e) ==
    LET s1 == MarkChildren([s EXCEPT !.localMatrixDirty[e] = TRUE,
                                     !.worldMatrixDirty[e] = TRUE], e)
    IN IF s.parent[e] \in Entities
       THEN [s1 EXCEPT !.worldMatrixDirty[s.parent[e]] = TRUE]
       ELSE s1

\* _markDirty
markDirty(s, e) ==
    MarkChildren([s EXCEPT !.localMatrixDirty[e] = TRUE, !.worldMatrixDirty[e] = TRUE], e)

\* _updateLocalMatrix without the test of _localMatrixDirty.
updateLocalMatrixAlways(s, e) ==
    [s EXCEPT !.localMatrix[e] = Compose(s.scaling[e], s.rotation[e], s.position[e]),
              !.localMatrixDirty[e] = FALSE,
              !.worldMatrixDirty[e] = TRUE]

\* _updateLocalMatrix
updateLocalMatrix(s, e) ==
    IF s.localMatrixDirty[e]
    THEN [s EXCEPT !.localMatrix[e] = Compose(s.scaling[e], s.rotation[e], s.position[e]),
                   !.localMatrixDirty[e] = FALSE,
                   !.worldMatrixDirty[e] = TRUE]
    ELSE s

\* _updateWorldMatrix.  stack holds the entities whose call is still running:
\* meeting one of them again while it is dirty is a recursion that never
\* returns, which the runtime ends with a RangeError.
RECURSIVE updateWorldMatrixFrom(_, _, _)
updateWorldMatrixFrom(s, e, stack) ==
    IF ~s.worldMatrixDirty[e] THEN Result(s, "none", 0)
    ELSE IF e \in stack THEN Result(s, "RangeError", 0)
    ELSE LET s1 == updateLocalMatrix(s, e)
             p  == s1.parent[e]
             r  == IF p = Null THEN Result(s1, "none", 0)
                   ELSE IF p \notin Entities THEN Result(s1, "TypeError", 0)
                   ELSE updateWorldMatrixFrom(s1, p, stack \cup {e})
             wm == IF p # Null
                   THEN Multiply(r.s.localMatrix[e], r.s.worldMatrix[p])
                   ELSE r.s.localMatrix[e]
         IN IF r.err # "none" THEN r
            ELSE Result(MarkChildren([r.s EXCEPT !.worldMatrix[e] = wm,
                                                 !.worldMatrixDirty[e] = FALSE,
                                                 !.transformDirty[e] = TRUE], e),
                        WalkError(r.s, e), 0)

updateWorldMatrix(s, e) == updateWorldMatrixFrom(s, e, {})

\* The entities on which one call of _updateWorldMatrix gets past its early
\* return, in the order in which it enters them.
RECURSIVE recomputed(_, _, _)
recomputed(s, e, stack) ==
    IF ~s.worldMatrixDirty[e] \/ e \in stack THEN << >>
    ELSE LET s1 == updateLocalMatrix(s, e)
             p == s1.parent[e]
         IN IF p \in Entities THEN <<e>> \o recomputed(s1, p, stack \cup {e})
            ELSE <<e>>

\* get worldMatrix: the matrix returned is field worldMatrix[e] of the result.
getWorldMatrix(s, e) == updateWorldMatrix(s, e)

\* ------------------------------------------------------------------ setters
\* set position(value)
setPosition(s, e, v) ==
    IF v = << >> THEN Result(s, "InvalidArgument", 0)
    ELSE IF ~VecEqualsWithEpsilon(s.position[e], v)
    THEN Result(markDirty([s EXCEPT !.position[e] = v], e), WalkError(s, e), 0)
    ELSE Result(s, "none", 0)

\* set rotation(value)
setRotation(s, e, q) ==
    IF q = NullQuat \/ QuatX(q) = 0 THEN Result(s, "InvalidArgument", 0)
    ELSE IF ~QuatEqualsWithEpsilon(s.rotation[e], q)
    THEN Result(markDirty([s EXCEPT !.rotation[e] = q], e), WalkError(s, e), 0)
    ELSE Result(s, "none", 0)

\* set scaling(value)
setScaling(s, e, v) ==
    IF v = << >> THEN Result(s, "InvalidArgument", 0)
    ELSE IF ~VecEqualsWithEpsilon(s.scaling[e], v)
    THEN Result(markDirty([s EXCEPT !.scaling[e] = v], e), WalkError(s, e), 0)
    ELSE Result(s, "none", 0)

\* ---------------------------------------------------------------- hierarchy
\* remove that detaches x from its parent whether or not x is a child here.
removeDetachesAlways(s, p, x) ==
    IF x = Null THEN Result(s, "none", 0)
    ELSE LET index == IndexOf(s.children[p], x)
             kept == IF index # 0 THEN Splice(s.children[p], index) ELSE s.children[p]
         IN Result([s EXCEPT !.children[p] = kept,
                             !.parent[x] = Null,
                             !.worldMatrixDirty[x] = TRUE], "none", 0)

\* remove(entity)
remove(s, p, x) ==
    IF x = Null THEN Result(s, "none", 0)
    ELSE LET index == IndexOf(s.children[p], x)
         IN IF index # 0
            THEN Result([s EXCEPT !.children[p] = Splice(s.children[p], index),
                                  !.parent[x] = Null,
                                  !.worldMatrixDirty[x] = TRUE], "none", 0)
            ELSE Result(s, "none", 0)

\* add that leaves x in the children of its old parent.
addWithoutDetach(s, p, x) ==
    IF x = Null THEN Result(s, "none", 0)
    ELSE Result([s EXCEPT !.children[p] = Append(s.children[p], x),
                          !.parent[x] = p,
                          !.worldMatrixDirty[x] = TRUE], "none", 0)

\* add that puts x first (unshift) instead of last (push).
addInFront(s, p, x) ==
    IF x = Null THEN Result(s, "none", 0)
    ELSE LET s1 == IF s.parent[x] # Null THEN remove(s, s.parent[x], x).s ELSE s
         IN Result([s1 EXCEPT !.children[p] = <<x>> \o s1.children[p],
                              !.parent[x] = p,
                              !.worldMatrixDirty[x] = TRUE], "none", 0)

\* add(entity) without the check of its argument: entity.parent of null or
\* undefined throws.
addUnchecked(s, p, x) ==
    IF x \in {Null, Undefined} THEN Result(s, "TypeError", 0)
    ELSE IF s.parent[x] \notin Entities \cup {Null} THEN Result(s, "TypeError", 0)
    ELSE LET s1 == IF s.parent[x] # Null THEN remove(s, s.parent[x], x).s ELSE s
         IN Result([s1 EXCEPT !.children[p] = Append(s1.children[p], x),
                              !.parent[x] = p,
                              !.worldMatrixDirty[x] = TRUE], "none", 0)

\* add(entity)
add(s, p, x) ==
    IF x \in {Null, Undefined} THEN Result(s, "none", 0)
    ELSE IF s.parent[x] \notin Entities \cup {Null} THEN Result(s, "TypeError", 0)
    ELSE LET s1 == IF s.parent[x] # Null THEN remove(s, s.parent[x], x).s ELSE s
         IN Result([s1 EXCEPT !.children[p] = Append(s1.children[p], x),
                              !.parent[x] = p,
                              !.worldMatrixDirty[x] = TRUE], "none", 0)

\* ------------------------------------------------------------- render sync
\* The callback createScene registers: it copies the transform it is given
\* into its mesh.
renderCallback(s, e, comp, m) ==
    [s EXCEPT !.rendered[e] = [component |-> comp, transform |-> m]]

\* typeof callback === 'function': "function" is the callback of createScene,
\* "throws" a function that throws.
IsFunction(cb) == cb \in {"function", "throws"}

\* The catch block of _syncEntityToRender: console.error, then throw error.
syncError(s, err, calls) == Result([s EXCEPT !.diagnostics = @ + 1], err, calls)

\* _syncEntityToRender whose catch block does not throw the error again.
syncEntityToRenderSwallows(s, e) ==
    IF s.renderComponent[e] = NoValue THEN Result(s, "none", 0)
    ELSE IF s.renderComponentCallback[e] = NoValue THEN Result(s, "none", 0)
    ELSE LET r == updateWorldMatrix(s, e)
         IN IF r.err # "none" THEN Result([r.s EXCEPT !.diagnostics = @ + 1], "none", 0)
            ELSE IF s.renderComponentCallback[e] = "throws"
            THEN Result([r.s EXCEPT !.diagnostics = @ + 1], "none", 1)
            ELSE Result(renderCallback(r.s, e, r.s.renderComponent[e], r.s.worldMatrix[e]),
                        "none", 1)

\* _syncEntityToRender
syncEntityToRender(s, e) ==
    IF s.renderComponent[e] = NoValue THEN Result(s, "none", 0)
    ELSE IF s.renderComponentCallback[e] = NoValue THEN Result(s, "none", 0)
    ELSE LET r == updateWorldMatrix(s, e)
         IN IF r.err # "none" THEN syncError(r.s, r.err, 0)
            ELSE IF s.renderComponentCallback[e] = "throws"
            THEN syncError(r.s, "CallbackError", 1)
            ELSE Result(renderCallback(r.s, e, r.s.renderComponent[e], r.s.worldMatrix[e]),
                        "none", 1)

\* update(delta)
update(s, e) ==
    IF s.transformDirty[e] /\ s.renderComponent[e] # NoValue
    THEN LET r == syncEntityToRender(s, e)
         IN IF r.err # "none" THEN r
            ELSE Result([r.s EXCEPT !.transformDirty[e] = FALSE], "none", r.calls)
    ELSE Result(s, "none", 0)

\* setRenderComponent that stores its arguments before it validates them.
setRenderComponentStoresFirst(s, e, comp, cb) ==
    LET s1 == [s EXCEPT !.renderComponent[e] = comp, !.renderComponentCallback[e] = cb]
    IN IF comp = NoValue THEN Result(s1, "InvalidArgument", 0)
       ELSE IF cb = NoValue \/ ~IsFunction(cb) THEN Result(s1, "InvalidArgument", 0)
       ELSE syncEntityToRender(s1, e)

\* setRenderComponent(renderComponent, callback)
setRenderComponent(s, e, comp, cb) ==
    IF comp = NoValue THEN Result(s, "InvalidArgument", 0)
    ELSE IF cb = NoValue \/ ~IsFunction(cb) THEN Result(s, "InvalidArgument", 0)
    ELSE syncEntityToRender([s EXCEPT !.renderComponent[e] = comp,
                                      !.renderComponentCallback[e] = cb], e)

\* --------------------------------------------------------- rotate towards
\* Angles are in units of pi/8 and durations in quarter seconds, so that
\* maxTurnRate = Math.PI is 2 units per quarter second.
MaxTurnRate == 2

\* What a call that returns a value gives its caller.
Returned(s, ret) == [s |-> s, err |-> "none", calls |-> 0, ret |-> ret]

\* acos(clamp(Quaternion.Dot(a, b))) of two quaternions, in steps of 22.5deg
CircDist(a, b) ==
    LET d == (a.k - b.k + 16) % 16
    IN IF d > 8 THEN 16 - d ELSE d

\* 2 * Math.acos(clampedDot), in units of pi/8
AngleBetween(a, b) == 2 * CircDist(a, b)

\* Quaternion.SlerpToRef(a, b, t, result) with t = num / den: when the dot
\* product is negative it interpolates towards -b; what is not a multiple of
\* 22.5deg is rounded towards a.
Slerp(a, b, num, den) ==
    LET flip == CircDist(a, b) > 4
        goal == IF flip THEN (b.k + 8) % 16 ELSE b.k
        up == (goal - a.k + 16) % 16
        arc == IF up <= 8 THEN up ELSE 16 - up
        travel == (num * arc) \div den
        ax == IF a.k % 8 = 0 THEN b.ax ELSE a.ax
    IN IF travel = 0 THEN a
       ELSE [ax |-> ax,
             k |-> IF up <= 8 THEN (a.k + travel) % 16 ELSE (a.k + 16 - travel) % 16]

\* _rotateTowards without the isNaN test: NaN < tolerance is false, and the
\* slerp with t = NaN gives a quaternion of NaN components.
rotateTowardsWithoutNaNTest(s, e, targetRotation, maxAngle, tolerance) ==
    LET angle == AngleBetween(s.rotation[e], targetRotation)
    IN IF IsNaN(s.rotation[e]) \/ IsNaN(targetRotation)
       THEN Returned([s EXCEPT !.rotation[e] = NaNQuat], FALSE)
       ELSE IF angle < tolerance
       THEN Returned([s EXCEPT !.rotation[e] = targetRotation], TRUE)
       ELSE LET num == IF maxAngle < angle THEN maxAngle ELSE angle
            IN Returned([s EXCEPT !.rotation[e] =
                            Slerp(s.rotation[e], targetRotation, num, angle)], FALSE)

\* _rotateTowards: this.rotation is changed in place, past the setter.  The
\* dot product with a quaternion of NaN components is NaN, and so is the
\* angle.
rotateTowards(s, e, targetRotation, maxAngle, tolerance) ==
    LET angle == AngleBetween(s.rotation[e], targetRotation)
    IN IF IsNaN(s.rotation[e]) \/ IsNaN(targetRotation) \/ angle < tolerance
       THEN Returned([s EXCEPT !.rotation[e] = targetRotation], TRUE)
       ELSE LET num == IF maxAngle < angle THEN maxAngle ELSE angle
            IN Returned([s EXCEPT !.rotation[e] =
                            Slerp(s.rotation[e], targetRotation, num, angle)], FALSE)

\* The two components of a vector are x and z.  Rotation of <<x, z>> by the
\* yaw of a quaternion about the y axis.
RotateVec(q, v) ==
    IF IsNaN(q) \/ v = NaNVec THEN NaNVec
    ELSE IF q.ax = "y"
    THEN <<(v[1] * CosQ(2 * q.k) + v[2] * SinQ(2 * q.k)) \div One,
           (v[2] * CosQ(2 * q.k) - v[1] * SinQ(2 * q.k)) \div One>>
    ELSE <<v[1], (v[2] * CosQ(2 * q.k)) \div One>>

\* Vector3.TransformCoordinates(v, m) for a symbolic matrix m
RECURSIVE TransformCoordinates(_, _)
TransformCoordinates(v, m) ==
    IF m = << >> THEN v
    ELSE LET trs == Head(m)
             scaled == <<(trs[1][1] * v[1]) \div One, (trs[1][2] * v[2]) \div One>>
             turned == RotateVec(trs[2], scaled)
         IN IF v = NaNVec \/ turned = NaNVec THEN NaNVec
            ELSE TransformCoordinates(<<turned[1] + trs[3][1], turned[2] + trs[3][2]>>,
                                      Tail(m))

\* Matrix.getTranslationToRef: the translation row of the product, which is
\* the position of the first factor carried through the other factors (the
\* scaling and the rotation of the first factor do not enter it).
TranslationOf(m) == IF m = << >> THEN Zero3 ELSE TransformCoordinates(Head(m)[3], Tail(m))

\* a.multiply(b) for quaternions about one axis
QuatMultiply(a, b) ==
    CASE IsNaN(a) \/ IsNaN(b) -> NaNQuat
      [] a.k = 0 -> b
      [] b.k = 0 -> a
      [] a.ax = b.ax -> [ax |-> a.ax, k |-> (a.k + b.k) % 16]

\* Quaternion.invertInPlace
QuatInverse(q) == [ax |-> q.ax, k |-> (16 - q.k) % 16]

\* The rotation that Matrix.decompose gives for a symbolic matrix
RECURSIVE RotationOf(_)
RotationOf(m) ==
    IF m = << >> THEN Identity ELSE QuatMultiply(RotationOf(Tail(m)), Head(m)[2])

\* A direction along one of the eight compass rays of the x-z plane
OnRay(d) == d # Zero3 /\ (d[1] = 0 \/ d[2] = 0 \/ Abs(d[1]) = Abs(d[2]))

\* The yaw of such a direction in steps of 45deg, 0 is +z and 2 is +x
YawOf(d) ==
    CASE d[1] = 0 /\ d[2] > 0 -> 0
      [] d[1] > 0 /\ d[2] = d[1] -> 1
      [] d[1] > 0 /\ d[2] = 0 -> 2
      [] d[1] > 0 /\ d[2] = -d[1] -> 3
      [] d[1] = 0 /\ d[2] < 0 -> 4
      [] d[1] < 0 /\ d[2] = d[1] -> 5
      [] d[1] < 0 /\ d[2] = 0 -> 6
      [] d[1] < 0 /\ d[2] = -d[1] -> 7

\* Quaternion.FromLookDirectionLH(direction, up) with up = +y: the rotation
\* about y by the yaw in (-180deg, 180deg], with w >= 0
FromLookDirectionLH(d) ==
    [ax |-> "y", k |-> IF YawOf(d) <= 4 THEN YawOf(d) ELSE YawOf(d) + 8]

\* The first half of lookAt and of rotateTo: the world matrices that the
\* getters bring up to date, and the target rotation in parent space.
targetRotation(s, e, target) ==
    LET r1 == updateWorldMatrix(s, e)
        positionWorld == TranslationOf(r1.s.worldMatrix[e])
        targetDirection == <<target[1] - positionWorld[1], target[2] - positionWorld[2]>>
        look == IF target = NaNVec \/ positionWorld = NaNVec THEN NaNQuat
                ELSE FromLookDirectionLH(targetDirection)
        p == s.parent[e]
    IN IF p # Null
       THEN LET r2 == updateWorldMatrix(r1.s, p)
            IN [s |-> r2.s,
                q |-> QuatMultiply(QuatInverse(RotationOf(r2.s.worldMatrix[p])), look)]
       ELSE [s |-> r1.s, q |-> look]

rotateTo(s, e, target, delta, tolerance) ==
    LET t == targetRotation(s, e, target)
    IN rotateTowards(t.s, e, t.q, MaxTurnRate * delta, tolerance)

\* lookAt: it assigns the target rotation through the rotation setter
lookAt(s, e, target) ==
    LET t == targetRotation(s, e, target)
    IN setRotation(t.s, e, t.q)

\* ------------------------------------------------------------ serialization
\* Identifiers are the numbers above 100, so that a sequence may hold
\* entities and identifiers.
IsId(x) == x > 100

\* _generateUUID: the random identifiers are taken to be all different
generateUUID(s) == 100 + s.generated + 1

\* get uuid that generates an identifier at every read.
getUuidRegenerates(s, e) ==
    [s |-> [s EXCEPT !.uuid[e] = generateUUID(s), !.generated = @ + 1],
     err |-> "none", calls |-> 0, ret |-> generateUUID(s)]

\* get uuid
getUuid(s, e) ==
    IF s.uuid[e] = Null
    THEN [s |-> [s EXCEPT !.uuid[e] = generateUUID(s), !.generated = @ + 1],
          err |-> "none", calls |-> 0, ret |-> generateUUID(s)]
    ELSE [s |-> s, err |-> "none", calls |-> 0, ret |-> s.uuid[e]]

\* x.uuid for whatever x a relationship field holds
RefUuid(s, x) ==
    IF x \in Entities THEN getUuid(s, x)
    ELSE IF x = Undefined \/ x = Null
    THEN [s |-> s, err |-> "TypeError", calls |-> 0, ret |-> Undefined]
    ELSE [s |-> s, err |-> "none", calls |-> 0, ret |-> Undefined]

\* _entitiesToIds(array): array.map((entity) => entity.uuid)
RECURSIVE entitiesToIds(_, _)
entitiesToIds(s, array) ==
    IF array = << >> THEN [s |-> s, err |-> "none", calls |-> 0, ret |-> << >>]
    ELSE LET first == RefUuid(s, Head(array))
             rest == entitiesToIds(first.s, Tail(array))
         IN IF first.err # "none" THEN [first EXCEPT !.ret = << >>]
            ELSE [rest EXCEPT !.ret = <<first.ret>> \o @]

\* Vector3.asArray / fromArray
VecAsArray(v) == [i \in 1..2 |-> v[i]]
VecFromArray(a) == <<a[1], a[2]>>

\* Quaternion.asArray / fromArray: the components x, y, w
QuatAsArray(q) == <<QuatX(q), QuatY(q), QuatW(q)>>
Quaternions == [ax : {"x", "y"}, k : 0..15]
QuatFromArray(a) ==
    IF a = QuatAsArray(Identity) THEN Identity
    ELSE CHOOSE q \in Quaternions : QuatAsArray(q) = a

\* toJSON that calls _markDirty after it has read the world matrix.
toJSONMarksDirty(s, e) ==
    LET own == getUuid(s, e)
        kids == entitiesToIds(own.s, own.s.children[e])
        p == kids.s.parent[e]
        par == IF p = Null
               THEN [s |-> kids.s, err |-> "none", calls |-> 0, ret |-> Null]
               ELSE RefUuid(kids.s, p)
        near == entitiesToIds(par.s, par.s.neighbors[e])
        read == getWorldMatrix(near.s, e)
        world == [read EXCEPT !.s = markDirty(read.s, e)]
    IN IF kids.err # "none" THEN Result(kids.s, kids.err, 0)
       ELSE IF par.err # "none" THEN Result(par.s, par.err, 0)
       ELSE IF near.err # "none" THEN Result(near.s, near.err, 0)
       ELSE IF world.err # "none" THEN world
       ELSE [s |-> world.s, err |-> "none", calls |-> 0,
             ret |-> [uuid |-> own.ret,
                      name |-> world.s.name[e],
                      children |-> kids.ret,
                      parent |-> par.ret,
                      neighbors |-> near.ret,
                      position |-> VecAsArray(world.s.position[e]),
                      rotation |-> QuatAsArray(world.s.rotation[e]),
                      scale |-> VecAsArray(world.s.scaling[e]),
                      worldMatrix |-> world.s.worldMatrix[e],
                      localMatrix |-> world.s.localMatrix[e]]]

\* toJSON.  ret is the record; the fields the model does not hold are left out.
toJSON(s, e) ==
    LET own == getUuid(s, e)
        kids == entitiesToIds(own.s, own.s.children[e])
        p == kids.s.parent[e]
        par == IF p = Null
               THEN [s |-> kids.s, err |-> "none", calls |-> 0, ret |-> Null]
               ELSE RefUuid(kids.s, p)
        near == entitiesToIds(par.s, par.s.neighbors[e])
        world == getWorldMatrix(near.s, e)
    IN IF kids.err # "none" THEN Result(kids.s, kids.err, 0)
       ELSE IF par.err # "none" THEN Result(par.s, par.err, 0)
       ELSE IF near.err # "none" THEN Result(near.s, near.err, 0)
       ELSE IF world.err # "none" THEN world
       ELSE [s |-> world.s, err |-> "none", calls |-> 0,
             ret |-> [uuid |-> own.ret,
                      name |-> world.s.name[e],
                      children |-> kids.ret,
                      parent |-> par.ret,
                      neighbors |-> near.ret,
                      position |-> VecAsArray(world.s.position[e]),
                      rotation |-> QuatAsArray(world.s.rotation[e]),
                      scale |-> VecAsArray(world.s.scaling[e]),
                      worldMatrix |-> world.s.worldMatrix[e],
                      localMatrix |-> world.s.localMatrix[e]]]

\* fromJSON that does not restore the parent.
fromJSONWithoutParent(s, e, json) ==
    Result([s EXCEPT !.name[e] = json.name,
                     !.position[e] = VecFromArray(json.position),
                     !.rotation[e] = QuatFromArray(json.rotation),
                     !.scaling[e] = VecFromArray(json.scale),
                     !.children[e] = json.children,
                     !.neighbors[e] = json.neighbors,
                     !.localMatrix[e] = json.localMatrix,
                     !.worldMatrix[e] = json.worldMatrix,
                     !.uuid[e] = json.uuid,
                     !.localMatrixDirty[e] = TRUE,
                     !.worldMatrixDirty[e] = TRUE], "none", 0)

\* fromJSON that leaves the dirty flags as they are.
fromJSONKeepsFlags(s, e, json) ==
    Result([s EXCEPT !.name[e] = json.name,
                     !.position[e] = VecFromArray(json.position),
                     !.rotation[e] = QuatFromArray(json.rotation),
                     !.scaling[e] = VecFromArray(json.scale),
                     !.children[e] = json.children,
                     !.neighbors[e] = json.neighbors,
                     !.parent[e] = json.parent,
                     !.localMatrix[e] = json.localMatrix,
                     !.worldMatrix[e] = json.worldMatrix,
                     !.uuid[e] = json.uuid], "none", 0)

\* fromJSON(json)
fromJSON(s, e, json) ==
    Result([s EXCEPT !.name[e] = json.name,
                     !.position[e] = VecFromArray(json.position),
                     !.rotation[e] = QuatFromArray(json.rotation),
                     !.scaling[e] = VecFromArray(json.scale),
                     !.children[e] = json.children,
                     !.neighbors[e] = json.neighbors,
                     !.parent[e] = json.parent,
                     !.localMatrix[e] = json.localMatrix,
                     !.worldMatrix[e] = json.worldMatrix,
                     !.uuid[e] = json.uuid,
                     !.localMatrixDirty[e] = TRUE,
                     !.worldMatrixDirty[e] = TRUE], "none", 0)

\* entities.get(id) for a Map given as a function from identifiers to entities
MapGet(entities, id) == IF id \in DOMAIN entities THEN entities[id] ELSE Undefined

\* resolveReferences(entities)
resolveReferences(s, e, entities) ==
    LET found == MapGet(entities, s.parent[e])
    IN Result([s EXCEPT !.neighbors[e] = [i \in 1..Len(@) |-> MapGet(entities, @[i])],
                        !.children[e] = [i \in 1..Len(@) |-> MapGet(entities, @[i])],
                        !.parent[e] = IF found = Undefined THEN Null ELSE found,
                        !.worldMatrixDirty[e] = TRUE], "none", 0)

\* this.name = n and this.neighbors.push(x): writes of public fields
setName(s, e, n) == Result([s EXCEPT !.name[e] = n], "none", 0)
pushNeighbor(s, e, x) == Result([s EXCEPT !.neighbors[e] = Append(@, x)], "none", 0)

\* new GameEntity() in the place of e
construct(s, e) ==
    [s EXCEPT !.parent[e] = Null, !.children[e] = << >>,
              !.position[e] = Zero3, !.rotation[e] = Identity, !.scaling[e] = Ones3,
              !.localMatrix[e] = ZeroMatrix, !.worldMatrix[e] = ZeroMatrix,
              !.localMatrixDirty[e] = TRUE, !.worldMatrixDirty[e] = TRUE,
              !.transformDirty[e] = TRUE,
              !.renderComponent[e] = NoValue, !.renderComponentCallback[e] = NoValue,
              !.rendered[e] = [component |-> NoValue, transform |-> ZeroMatrix],
              !.uuid[e] = Null, !.name[e] = "", !.neighbors[e] = << >>,
              !.manager[e] = NoValue]

\* ---------------------------------------------------------------- messages
\* sendMessage that throws when there is no manager.
sendMessageRequiresManager(s, e, receiver, message, delay, data) ==
    IF s.manager[e] # NoValue
    THEN [s |-> [s EXCEPT !.outbox = Append(@,
                     <<e, receiver, message,
                       IF delay = Undefined THEN 0 ELSE delay,
                       IF data = Undefined THEN Null ELSE data>>)],
          err |-> "none", calls |-> 1, ret |-> e]
    ELSE [s |-> s, err |-> "TypeError", calls |-> 0, ret |-> Undefined]

\* sendMessage without default values for delay and data.
sendMessageWithoutDefaults(s, e, receiver, message, delay, data) ==
    IF s.manager[e] # NoValue
    THEN [s |-> [s EXCEPT !.outbox = Append(@, <<e, receiver, message, delay, data>>)],
          err |-> "none", calls |-> 1, ret |-> e]
    ELSE [s |-> [s EXCEPT !.diagnostics = @ + 1],
          err |-> "none", calls |-> 0, ret |-> e]

\* sendMessage(receiver, message, delay = 0, data = null): an argument that is
\* omitted is Undefined and takes its default; outbox holds the calls of
\* manager.sendMessage, diagnostics counts the calls of console.error.
sendMessage(s, e, receiver, message, delay, data) ==
    LET d == IF delay = Undefined THEN 0 ELSE delay
        dt == IF data = Undefined THEN Null ELSE data
    IN IF s.manager[e] # NoValue
       THEN [s |-> [s EXCEPT !.outbox = Append(@, <<e, receiver, message, d, dt>>)],
             err |-> "none", calls |-> 1, ret |-> e]
       ELSE [s |-> [s EXCEPT !.diagnostics = @ + 1],
             err |-> "none", calls |-> 0, ret |-> e]

\* entity.manager = manager
setManager(s, e, m) == Result([s EXCEPT !.manager[e] = m], "none", 0)

\* ------------------------------------------------------------ _generateUUID
\* The template of _generateUUID, character by character.
Template ==
    <<"x", "x", "x", "x", "x", "x", "x", "x", "-", "x", "x", "x", "x", "-",
      "4", "x", "x", "x", "-", "y", "x", "x", "x", "-",
      "x", "x", "x", "x", "x", "x", "x", "x", "x", "x", "x", "x">>

\* (Math.random() * 16) | 0 is one of 0 .. 15
Draws == 0..15

\* Number.prototype.toString(16) of 0 .. 15
HexDigits == <<"0", "1", "2", "3", "4", "5", "6", "7",
               "8", "9", "a", "b", "c", "d", "e", "f">>
ToString16(v) == HexDigits[v + 1]

\* The replacement function that ignores the character it replaces.
replacementIgnoresY(c, r) == ToString16(r)

\* The function that replace(/[xy]/g, ...) calls for a character c that is
\* x or y, with r the draw: v = c === "x" ? r : (r & 0x3) | 0x8.
replacement(c, r) ==
    LET v == IF c = "x" THEN r ELSE (r % 4) + 8
    IN ToString16(v)

\* What replace(/[xy]/g, ...) puts in the place of character c.
replaceChar(c, r) == IF c \in {"x", "y"} THEN replacement(c, r) ELSE c

\* ------------------------------------------------------- in-place mutation
\* entity.position.set(x, y, z): the getter returns the stored vector and
\* the caller writes its components.
positionSet(s, e, v) == Result([s EXCEPT !.position[e] = v], "none", 0)

\* entity.scaling.y = value, and the like
scalingSet(s, e, v) == Result([s EXCEPT !.scaling[e] = v], "none", 0)

\* The product of the CURRENT local transforms of e and of its ancestors,
\* child first: what a world matrix of e has to be.
RECURSIVE TrueWorld(_, _)
TrueWorld(s, e) ==
    LET local == Compose(s.scaling[e], s.rotation[e], s.position[e])
    IN IF s.parent[e] # Null THEN Multiply(local, TrueWorld(s, s.parent[e])) ELSE local

\* ------------------------------------------------------------------ actions
\* The fields after a call become the state.
Apply(r) ==
    /\ parent' = r.s.parent
    /\ children' = r.s.children
    /\ position' = r.s.position
    /\ rotation' = r.s.rotation
    /\ scaling' = r.s.scaling
    /\ localMatrix' = r.s.localMatrix
    /\ worldMatrix' = r.s.worldMatrix
    /\ localMatrixDirty' = r.s.localMatrixDirty
    /\ worldMatrixDirty' = r.s.worldMatrixDirty
    /\ transformDirty' = r.s.transformDirty
    /\ renderComponent' = r.s.renderComponent
    /\ renderComponentCallback' = r.s.renderComponentCallback
    /\ rendered' = r.s.rendered
    /\ uuid' = r.s.uuid
    /\ name' = r.s.name
    /\ neighbors' = r.s.neighbors
    /\ generated' = r.s.generated
    /\ manager' = r.s.manager
    /\ outbox' = r.s.outbox
    /\ diagnostics' = r.s.diagnostics
    /\ UNCHANGED draftVars

\* 1 when the call changed a transform or the hierarchy, else 0.
Cost(r) ==
    IF <<r.s.position, r.s.rotation, r.s.scaling, r.s.parent, r.s.children,
         r.s.name, r.s.neighbors>>
         # <<position, rotation, scaling, parent, children, name, neighbors>>
    THEN 1 ELSE 0

\* A call in a behaviour that makes at most MaxChanges changes.
Bounded(r) ==
    /\ spent + Cost(r) <= MaxChanges
    /\ Apply(r)
    /\ spent' = spent + Cost(r)
    /\ UNCHANGED <<last, synced, fileVars>>

\* A call whose outcome is recorded.
\* from is the parent the argument x had when the call was made.
Call(op, e, x, r) ==
    [op |-> op, e |-> e, x |-> x, from |-> IF x # Null THEN parent[x] ELSE Null,
     err |-> r.err, calls |-> r.calls]

Recorded(op, e, x, r) ==
    /\ Apply(r)
    /\ last' = Call(op, e, x, r)
    /\ UNCHANGED <<spent, synced, fileVars>>

\* The ancestors of e, for hierarchies without a cycle.
RECURSIVE Ancestors(_)
Ancestors(e) == IF parent[e] = Null THEN {} ELSE {parent[e]} \cup Ancestors(parent[e])

\* A caller that keeps the hierarchy free of cycles (spec 4.1): x is
\* neither p nor an ancestor of p.
KeepsAcyclic(p, x) == x # Null => (x # p /\ x \notin Ancestors(p))

\* ------------------------------------------------------------------- inputs
PositionInputs == {<< >>, <<0, 0>>, <<1, 1>>, <<0, 2>>}
ScalingInputs == {<< >>, <<One, One>>, <<One + 1, One>>, <<One, 3 * One>>}
RotationInputs == {NullQuat, Identity, [ax |-> "y", k |-> 2], [ax |-> "x", k |-> 2]}
ComponentInputs == {NoValue, "mesh1", "mesh2"}
CallbackInputs == {NoValue, "notFunction", "function"}
TargetInputs == {<<0, 5>>, <<5, 5>>, <<5, 0>>, <<-5, 0>>, <<-5, -5>>, <<0, -5>>}
\* durations in quarter seconds
DeltaInputs == {0, 1, 2, 8}
\* 1 is the default 0.0001 rad: only an angle of zero is below it
ToleranceInputs == {1, 3}

NameInputs == {"", "a"}

\* A record with an identifier that no entity generates (tests, "test-uuid").
JsonInputs ==
    {[uuid |-> 100 + NumEntities + 1, name |-> "a",
      children |-> << >>, parent |-> Null, neighbors |-> << >>,
      position |-> VecAsArray(<<1, 1>>), rotation |-> QuatAsArray(Identity),
      scale |-> VecAsArray(Ones3),
      worldMatrix |-> Compose(Ones3, Identity, Zero3),
      localMatrix |-> Compose(Ones3, Identity, Zero3)]}

MessageInputs == {"test"}
\* Undefined is an omitted argument
DelayInputs == {Undefined, 100}
DataInputs == {Undefined, 123}

ThrowingInputs == {"function", "throws"}

\* ------------------------------------------------------------ specification
\* The state after `new GameEntity()` for every entity.
Constructed ==
    /\ parent = [e \in Entities |-> Null]
    /\ children = [e \in Entities |-> << >>]
    /\ position = [e \in Entities |-> Zero3]
    /\ rotation = [e \in Entities |-> Identity]
    /\ scaling = [e \in Entities |-> Ones3]
    /\ localMatrix = [e \in Entities |-> ZeroMatrix]
    /\ worldMatrix = [e \in Entities |-> ZeroMatrix]
    /\ localMatrixDirty = [e \in Entities |-> TRUE]
    /\ worldMatrixDirty = [e \in Entities |-> TRUE]
    /\ transformDirty = [e \in Entities |-> TRUE]
    /\ renderComponent = [e \in Entities |-> NoValue]
    /\ renderComponentCallback = [e \in Entities |-> NoValue]
    /\ rendered = [e \in Entities |-> [component |-> NoValue, transform |-> ZeroMatrix]]
    /\ uuid = [e \in Entities |-> Null]
    /\ name = [e \in Entities |-> ""]
    /\ neighbors = [e \in Entities |-> << >>]
    /\ generated = 0
    /\ manager = [e \in Entities |-> NoValue]
    /\ outbox = << >>
    /\ diagnostics = 0
    /\ synced = [e \in Entities |-> ZeroMatrix]
    /\ saved = [e \in Entities |-> {}]
    /\ stage = [e \in Entities |-> "live"]
    /\ draft = << >>
    /\ last = [op |-> "new", e |-> Null, x |-> Null, from |-> Null, err |-> "none", calls |-> 0]
    /\ spent = 0

Init == Constructed /\ random = [next |-> 0, step |-> 1]

\* Spec: transform writes, world-matrix reads and hierarchy changes on an
\* acyclic hierarchy.
SetPosition(e, v) == Bounded(setPosition(State, e, v))
SetRotation(e, q) == Bounded(setRotation(State, e, q))
SetScaling(e, v) == Bounded(setScaling(State, e, v))
ReadWorldMatrix(e) == Bounded(getWorldMatrix(State, e))
Add(p, x) == KeepsAcyclic(p, x) /\ Bounded(add(State, p, x))
Remove(p, x) == Bounded(remove(State, p, x))

Next ==
    \/ \E e \in Entities, v \in PositionInputs : SetPosition(e, v)
    \/ \E e \in Entities, q \in RotationInputs : SetRotation(e, q)
    \/ \E e \in Entities, v \in ScalingInputs : SetScaling(e, v)
    \/ \E e \in Entities : ReadWorldMatrix(e)
    \/ \E p \in Entities, x \in Entities \cup {Null} : Add(p, x)
    \/ \E p \in Entities, x \in Entities \cup {Null} : Remove(p, x)

Spec == Init /\ [][Next]_vars

\* SpecWrites: a hierarchy built by add calls on new entities, then only
\* transform writes and world-matrix reads.
NothingComputed == \A e \in Entities : localMatrix[e] = ZeroMatrix
BuildAdd(p, x) == NothingComputed /\ x # Null /\ Add(p, x)

NextWrites ==
    \/ \E p \in Entities, x \in Entities : BuildAdd(p, x)
    \/ \E e \in Entities, v \in PositionInputs : SetPosition(e, v)
    \/ \E e \in Entities, q \in RotationInputs : SetRotation(e, q)
    \/ \E e \in Entities, v \in ScalingInputs : SetScaling(e, v)
    \/ \E e \in Entities : ReadWorldMatrix(e)

SpecWrites == Init /\ [][NextWrites]_vars

\* SpecRender: entities that are roots or children of roots, placed by add
\* calls on new entities, then position writes, reads, and render components:
\* registration and ticks, whose outcomes are recorded.
RenderCall(op, e, r) ==
    /\ Cardinality({x \in Entities : r.s.renderComponent[x] # NoValue}) <= MaxRendered
    /\ Apply(r)
    /\ last' = Call(op, e, Null, r)
    /\ synced' = IF r.calls > 0 THEN [synced EXCEPT ![e] = TrueWorld(State, e)] ELSE synced
    /\ UNCHANGED <<spent, fileVars>>

Update(e) == RenderCall("update", e, update(State, e))
SetRenderComponent(e, comp, cb) ==
    RenderCall("setRenderComponent", e, setRenderComponent(State, e, comp, cb))

\* add on new entities that keeps every entity a root or the child of a root.
FlatAdd(p, x) == parent[p] = Null /\ children[x] = << >> /\ BuildAdd(p, x)

NextRender ==
    \/ \E p \in Entities, x \in Entities : FlatAdd(p, x)
    \/ \E e \in Entities, v \in PositionInputs : SetPosition(e, v)
    \/ \E e \in Entities : ReadWorldMatrix(e)
    \/ \E e \in Entities : Update(e)
    \/ \E e \in Entities, comp \in ComponentInputs, cb \in CallbackInputs :
          SetRenderComponent(e, comp, cb)

SpecRender == Init /\ [][NextRender]_vars

\* SpecRegister: a hierarchy of any depth built by add calls on new entities,
\* then position writes, reads and registrations.
NextRegister ==
    \/ \E p \in Entities, x \in Entities : BuildAdd(p, x)
    \/ \E e \in Entities, v \in PositionInputs : SetPosition(e, v)
    \/ \E e \in Entities : ReadWorldMatrix(e)
    \/ \E e \in Entities, comp \in ComponentInputs, cb \in CallbackInputs :
          SetRenderComponent(e, comp, cb)

SpecRegister == Init /\ [][NextRegister]_vars

\* SpecHier: any add and remove calls, cycles included, each call recorded.
HierAdd(p, x) == Recorded("add", p, x, add(State, p, x))
HierRemove(p, x) == Recorded("remove", p, x, remove(State, p, x))

NextHier ==
    \/ \E p \in Entities, x \in Entities \cup {Null} : HierAdd(p, x)
    \/ \E p \in Entities, x \in Entities \cup {Null} : HierRemove(p, x)

SpecHier == Init /\ [][NextHier]_vars

\* SpecRotate: a hierarchy built by add calls on new entities, then
\* rotateTo and lookAt calls towards targets on the compass rays.
Facing(e, target) ==
    LET positionWorld == TranslationOf(updateWorldMatrix(State, e).s.worldMatrix[e])
    IN /\ target # NaNVec /\ positionWorld # NaNVec
       /\ OnRay(<<target[1] - positionWorld[1], target[2] - positionWorld[2]>>)

RotateTo(e, target, delta, tolerance) ==
    Facing(e, target) /\ Bounded(rotateTo(State, e, target, delta, tolerance))

LookAt(e, target) == Facing(e, target) /\ Bounded(lookAt(State, e, target))

NextRotate ==
    \/ \E p \in Entities, x \in Entities : BuildAdd(p, x)
    \/ \E e \in Entities, target \in TargetInputs, delta \in DeltaInputs,
          tolerance \in ToleranceInputs : RotateTo(e, target, delta, tolerance)
    \/ \E e \in Entities, target \in TargetInputs : LookAt(e, target)

SpecRotate == Init /\ [][NextRotate]_vars

\* SpecSerial: a graph is built on new entities, saved and loaded again.
\* Every entity is exported with toJSON, in order; then every record is
\* imported with fromJSON into a new entity that takes the place of the
\* exported one; then resolveReferences runs on every imported entity, with
\* the map of all imported entities or with that map lacking one of them.
\* World matrices of loaded entities are read at any time.
Building == \A e \in Entities : saved[e] = {} /\ stage[e] = "live"
Saved(e) == CHOOSE json \in saved[e] : TRUE

SerialCall(r) ==
    /\ Apply(r)
    /\ UNCHANGED <<synced, last, spent>>

SetName(e, n) == Building /\ Bounded(setName(State, e, n))
AddNeighbor(e, x) ==
    Building /\ neighbors[e] = << >> /\ x # e /\ Bounded(pushNeighbor(State, e, x))
PlaceAt(e, v) == Building /\ NothingComputed /\ SetPosition(e, v)
SerialAdd(p, x) == Building /\ BuildAdd(p, x)

Export(e) ==
    LET r == toJSON(State, e)
    IN /\ \A x \in Entities : stage[x] = "live" /\ (saved[x] # {} <=> x < e)
       /\ r.err = "none"
       /\ SerialCall(r)
       /\ saved' = [saved EXCEPT ![e] = {r.ret}]
       /\ UNCHANGED stage

Import(e) ==
    /\ \A x \in Entities : saved[x] # {} /\ (stage[x] # "live" <=> x < e)
    /\ SerialCall(fromJSON(construct(State, e), e, Saved(e)))
    /\ stage' = [stage EXCEPT ![e] = "imported"]
    /\ UNCHANGED saved

\* The map a caller builds from the imported entities, and the same map
\* without the key gone
EntityMap == [id \in {uuid[x] : x \in Entities} |-> CHOOSE x \in Entities : uuid[x] = id]
MapWithout(gone) == [id \in DOMAIN EntityMap \ {gone} |-> EntityMap[id]]

\* resolveReferences on the next imported entity, every call of one load
\* with the same map: last.x is the key that the map lacks, or Null.
Resolve(e, gone) ==
    LET r == resolveReferences(State, e, MapWithout(gone))
    IN /\ \A x \in Entities : stage[x] # "live" /\ (stage[x] # "imported" <=> x < e)
       /\ last.op = "resolveReferences" => gone = last.x
       /\ Apply(r)
       /\ last' = [Call("resolveReferences", e, Null, r) EXCEPT !.x = gone]
       /\ stage' = [stage EXCEPT ![e] = IF gone = Null THEN "resolved" ELSE "partly"]
       /\ UNCHANGED <<saved, synced, spent>>

LoadedRead(e) ==
    /\ stage[e] # "live"
    /\ SerialCall(getWorldMatrix(State, e))
    /\ UNCHANGED fileVars

NextSerial ==
    \/ \E p \in Entities, x \in Entities : SerialAdd(p, x)
    \/ \E e \in Entities, n \in NameInputs : SetName(e, n)
    \/ \E e \in Entities, x \in Entities : AddNeighbor(e, x)
    \/ \E e \in Entities, v \in PositionInputs : PlaceAt(e, v)
    \/ \E e \in Entities : Export(e)
    \/ \E e \in Entities : Import(e)
    \/ \E e \in Entities : \E gone \in {Null} \cup DOMAIN EntityMap : Resolve(e, gone)
    \/ \E e \in Entities : LoadedRead(e)

SpecSerial == Init /\ [][NextSerial]_vars

\* SpecId: at most MaxChanges calls, of any kind, on new entities: reads of
\* uuid, transform writes, add and remove, world-matrix reads, ticks, exports
\* and imports.  Every call is recorded: x is what a read of uuid returned and
\* from is the identifier the entity had before the call.
IdCall(op, e, ret, r) ==
    /\ spent < MaxChanges
    /\ Apply(r)
    /\ spent' = spent + 1
    /\ last' = [op |-> op, e |-> e, x |-> ret, from |-> uuid[e],
                err |-> r.err, calls |-> r.calls]
    /\ UNCHANGED <<synced, fileVars>>

ReadUuid(e) == LET r == getUuid(State, e) IN IdCall("uuid", e, r.ret, r)
IdSetPosition(e, v) == IdCall("position", e, Null, setPosition(State, e, v))
IdSetRotation(e, q) == IdCall("rotation", e, Null, setRotation(State, e, q))
IdSetScaling(e, v) == IdCall("scaling", e, Null, setScaling(State, e, v))
IdAdd(p, x) == KeepsAcyclic(p, x) /\ IdCall("add", p, Null, add(State, p, x))
IdRemove(p, x) == IdCall("remove", p, Null, remove(State, p, x))
IdReadWorldMatrix(e) == IdCall("worldMatrix", e, Null, getWorldMatrix(State, e))
IdUpdate(e) == IdCall("update", e, Null, update(State, e))
IdExport(e) == IdCall("toJSON", e, Null, toJSON(State, e))
IdImport(e, json) == IdCall("fromJSON", e, Null, fromJSON(State, e, json))

NextId ==
    \/ \E e \in Entities : ReadUuid(e)
    \/ \E e \in Entities, v \in PositionInputs : IdSetPosition(e, v)
    \/ \E e \in Entities, q \in RotationInputs : IdSetRotation(e, q)
    \/ \E e \in Entities, v \in ScalingInputs : IdSetScaling(e, v)
    \/ \E p \in Entities, x \in Entities : IdAdd(p, x)
    \/ \E p \in Entities, x \in Entities : IdRemove(p, x)
    \/ \E e \in Entities : IdReadWorldMatrix(e)
    \/ \E e \in Entities : IdUpdate(e)
    \/ \E e \in Entities : IdExport(e)
    \/ \E e \in Entities, json \in JsonInputs : IdImport(e, json)

SpecId == Init /\ [][NextId]_vars

\* SpecMessage: at most MaxChanges calls on new entities, each one the
\* attachment of the manager or a sendMessage.  A sendMessage is recorded:
\* x is the receiver and from the delay as it was passed.
AttachManager(e) ==
    /\ spent < MaxChanges
    /\ manager[e] = NoValue
    /\ Apply(setManager(State, e, "manager"))
    /\ spent' = spent + 1
    /\ UNCHANGED <<last, synced, fileVars>>

SendMessage(e, receiver, message, delay, data) ==
    LET r == sendMessage(State, e, receiver, message, delay, data)
    IN /\ spent < MaxChanges
       /\ Apply(r)
       /\ spent' = spent + 1
       /\ last' = [op |-> "sendMessage", e |-> e, x |-> receiver, from |-> delay,
                   err |-> r.err, calls |-> r.calls]
       /\ UNCHANGED <<synced, fileVars>>

NextMessage ==
    \/ \E e \in Entities : AttachManager(e)
    \/ \E e \in Entities, receiver \in Entities, message \in MessageInputs,
          delay \in DelayInputs, data \in DataInputs :
          SendMessage(e, receiver, message, delay, data)

SpecMessage == Init /\ [][NextMessage]_vars

\* SpecCallback: SpecRender with one component and with callbacks that are
\* functions, the callback of createScene or one that throws, in behaviours
\* with at most MaxDiagnostics failures.
CallbackUpdate(e) ==
    /\ update(State, e).s.diagnostics <= MaxDiagnostics
    /\ Update(e)

CallbackRegister(e, cb) ==
    /\ setRenderComponent(State, e, "mesh1", cb).s.diagnostics <= MaxDiagnostics
    /\ SetRenderComponent(e, "mesh1", cb)

NextCallback ==
    \/ \E p \in Entities, x \in Entities : FlatAdd(p, x)
    \/ \E e \in Entities, v \in PositionInputs : SetPosition(e, v)
    \/ \E e \in Entities : ReadWorldMatrix(e)
    \/ \E e \in Entities : CallbackUpdate(e)
    \/ \E e \in Entities, cb \in ThrowingInputs : CallbackRegister(e, cb)

SpecCallback == Init /\ [][NextCallback]_vars

\* SpecUuid: _generateUUID writes an identifier character by character.
\* Math.random gives the draws next, next + step, next + 2 step, ... modulo
\* 16, for every first draw and every step.
WriteChar ==
    /\ Len(draft) < Len(Template)
    /\ LET c == Template[Len(draft) + 1]
       IN /\ draft' = Append(draft, replaceChar(c, random.next))
          /\ random' = IF c \in {"x", "y"}
                       THEN [random EXCEPT !.next = (@ + random.step) % 16]
                       ELSE random
    /\ UNCHANGED <<entityVars, synced, fileVars, last, spent>>

InitUuid == Constructed /\ random \in [next : Draws, step : Draws]

NextUuid == WriteChar

SpecUuid == InitUuid /\ [][NextUuid]_vars

\* SpecMutate: a hierarchy built by add calls on new entities, then setter
\* writes, reads, and writes into the vectors that the getters return, as
\* createScene and the tests make them.
PositionSet(e, v) == Bounded(positionSet(State, e, v))
ScalingSet(e, v) == Bounded(scalingSet(State, e, v))

NextMutate ==
    \/ \E p \in Entities, x \in Entities : BuildAdd(p, x)
    \/ \E e \in Entities, v \in PositionInputs : SetPosition(e, v)
    \/ \E e \in Entities : ReadWorldMatrix(e)
    \/ \E e \in Entities, v \in PositionInputs \ {<< >>} : PositionSet(e, v)
    \/ \E e \in Entities, v \in ScalingInputs \ {<< >>} : ScalingSet(e, v)

SpecMutate == Init /\ [][NextMutate]_vars

\* SpecCycle: add and remove calls by a caller that does not keep the
\* hierarchy acyclic, and world-matrix reads.  A read on a cycle may multiply
\* one more stale matrix into the product each time, so that reads count as
\* changes here.
CycleAdd(p, x) == Bounded(add(State, p, x))

CycleRead(e) ==
    /\ spent < MaxChanges
    /\ Apply(getWorldMatrix(State, e))
    /\ spent' = spent + 1
    /\ UNCHANGED <<last, synced, fileVars>>

NextCycle ==
    \/ \E p \in Entities, x \in Entities : CycleAdd(p, x)
    \/ \E p \in Entities, x \in Entities : Remove(p, x)
    \/ \E e \in Entities : CycleRead(e)

SpecCycle == Init /\ [][NextCycle]_vars

\* SpecSnap: a hierarchy built by add calls on new entities, then rotateTo
\* calls towards targets on the compass rays and towards a target whose
\* coordinates are NaN.
SnapTargetInputs == {<<0, 5>>, <<5, 0>>, <<-5, -5>>, NaNVec}

Steerable(e, target) == target = NaNVec \/ Facing(e, target)

SnapRotateTo(e, target, delta, tolerance) ==
    Steerable(e, target) /\ Bounded(rotateTo(State, e, target, delta, tolerance))

NextSnap ==
    \/ \E p \in Entities, x \in Entities : BuildAdd(p, x)
    \/ \E e \in Entities, target \in SnapTargetInputs, delta \in DeltaInputs,
          tolerance \in ToleranceInputs : SnapRotateTo(e, target, delta, tolerance)

SpecSnap == Init /\ [][NextSnap]_vars

\* SpecRetry: a hierarchy of any depth built by add calls on new entities,
\* then position writes, registrations of a callback that throws, and ticks.
NextRetry ==
    \/ \E p \in Entities, x \in Entities : BuildAdd(p, x)
    \/ \E e \in Entities, v \in PositionInputs : SetPosition(e, v)
    \/ \E e \in Entities : CallbackUpdate(e)
    \/ \E e \in Entities : CallbackRegister(e, "throws")

SpecRetry == Init /\ [][NextRetry]_vars

\* ================================================================== claims
\* C1: in an acyclic hierarchy, after any writes and reads, a read of any
\* entity's worldMatrix returns the composition of the current local
\* transforms along its whole ancestor chain.
C1_ReadReturnsCurrentWorld ==
    \A e \in Entities :
        LET r == getWorldMatrix(State, e)
        IN r.err = "none" /\ r.s.worldMatrix[e] = TrueWorld(State, e)

\* The entity x removed from sequence q.
Without(q, x) == SelectSeq(q, LAMBDA y : y # x)

\* How often x occurs in children sequences, over all entities.
Occurrences(x) ==
    Cardinality({pi \in Entities \X (1..NumEntities) :
                    pi[2] <= Len(children[pi[1]]) /\ children[pi[1]][pi[2]] = x})

\* C2: after any add and remove calls, c.parent = p exactly when c occurs in
\* p.children, and every entity occurs in at most one children sequence, at
\* most once.
C2_ParentChildrenConsistent ==
    /\ \A c \in Entities : \A p \in Entities :
          (parent[c] = p) <=> (c \in Range(children[p]))
    /\ \A c \in Entities : Occurrences(c) <= 1
    /\ \A p \in Entities : Len(children[p]) <= NumEntities

\* A child was moved from one parent to another and a remove call followed.
C2_Witness ==
    /\ last.op = "remove"
    /\ \E c \in Entities : parent[c] # Null /\ Len(children[parent[c]]) >= 2
    /\ \E c \in Entities : parent[c] = Null

\* C3: add(child) on a child that has a parent detaches it from that parent
\* and appends it at the end of the receiver's children; child.parent is the
\* receiver.  A different old parent no longer contains the child; when the
\* old parent is the receiver the child moves to the end and the length is
\* unchanged.
C3_AddReparents ==
    \A p \in Entities : \A x \in Entities :
        LET q == parent[x]
            t == add(State, p, x).s
        IN q # Null =>
            /\ t.parent[x] = p
            /\ Len(t.children[p]) >= 1
            /\ t.children[p][Len(t.children[p])] = x
            /\ t.children[p] = Append(Without(children[p], x), x)
            /\ q # p => /\ x \notin Range(t.children[q])
                        /\ t.children[q] = Without(children[q], x)
                        /\ x \in Range(t.children[p])
            /\ q = p => Len(t.children[p]) = Len(children[p])

\* add moved a child away from a different parent, to the end of a sequence
\* that already held a child.
C3_Witness ==
    /\ last.op = "add"
    /\ last.x # Null
    /\ last.from \notin {Null, last.e}
    /\ parent[last.x] = last.e
    /\ last.x \notin Range(children[last.from])
    /\ Len(children[last.e]) >= 2
    /\ children[last.e][Len(children[last.e])] = last.x

\* C4: remove(x) on an entity whose children do not contain x changes
\* nothing: not the receiver's children, not x's parent, not a dirty flag.
C4_RemoveAbsentIsNoOp ==
    \A p \in Entities : \A x \in Entities :
        x \notin Range(children[p]) => remove(State, p, x).s = State

\* remove was called with an entity that is a child of another entity, and
\* that entity still has its parent.
C4_Witness ==
    /\ last.op = "remove"
    /\ last.x # Null
    /\ last.from \notin {Null, last.e}
    /\ parent[last.x] = last.from
    /\ last.x \in Range(children[last.from])

\* C5: a setter write whose every component is within the tolerance of the
\* current value changes neither the stored value nor a dirty flag; a write
\* that differs beyond the tolerance in some component stores the value, sets
\* LocalDirty and WorldDirty, and the next local-matrix update changes the
\* local matrix.  Likewise for position, orientation and scale.
C5_WriteTakesEffect(r, e, within, stored) ==
    IF within
    THEN r.s = State
    ELSE /\ stored
         /\ r.s.localMatrixDirty[e]
         /\ r.s.worldMatrixDirty[e]
         /\ updateLocalMatrix(r.s, e).localMatrix[e] # localMatrix[e]

C5_SetterWrites ==
    \A e \in Entities :
        /\ \A v \in PositionInputs \ {<< >>} :
              LET r == setPosition(State, e, v)
              IN C5_WriteTakesEffect(r, e, VecEqualsWithEpsilon(position[e], v),
                                     r.s.position[e] = v)
        /\ \A q \in RotationInputs \ {NullQuat} :
              LET r == setRotation(State, e, q)
              IN C5_WriteTakesEffect(r, e, QuatEqualsWithEpsilon(rotation[e], q),
                                     r.s.rotation[e] = q)
        /\ \A v \in ScalingInputs \ {<< >>} :
              LET r == setScaling(State, e, v)
              IN C5_WriteTakesEffect(r, e, VecEqualsWithEpsilon(scaling[e], v),
                                     r.s.scaling[e] = v)

\* C6: when the world transform of an entity with a render component has
\* changed since its last synchronization pass, the next update invokes the
\* callback exactly once, with the current world transform.
C6_UpdateSyncsAfterChange ==
    \A e \in Entities :
        (renderComponent[e] # NoValue /\ synced[e] # TrueWorld(State, e)) =>
            LET r == update(State, e)
            IN /\ r.err = "none"
               /\ r.calls = 1
               /\ r.s.rendered[e] =
                     [component |-> renderComponent[e], transform |-> TrueWorld(State, e)]

\* C7: update invokes the callback zero times when the world transform has
\* not changed since the last synchronization pass.
C7_UpdateIdleWhenUnchanged ==
    \A e \in Entities :
        (renderComponent[e] # NoValue /\ synced[e] = TrueWorld(State, e)) =>
            update(State, e).calls = 0

\* C8: setRenderComponent with a component and a function stores both and
\* invokes the callback exactly once, with that component and the entity's
\* current world transform.
C8_RegistrationSyncsOnce ==
    \A e \in Entities : \A comp \in ComponentInputs \ {NoValue} :
        LET r == setRenderComponent(State, e, comp, "function")
        IN /\ r.err = "none"
           /\ r.s.renderComponent[e] = comp
           /\ r.s.renderComponentCallback[e] = "function"
           /\ r.calls = 1
           /\ r.s.rendered[e] = [component |-> comp, transform |-> TrueWorld(State, e)]

\* C9: setRenderComponent with an absent component, or with a callback that
\* is absent or not a function, fails with InvalidArgument and leaves every
\* field as it was: the stored component and callback are kept, no callback
\* runs, no matrix and no flag changes.
C9_InvalidRegistrationChangesNothing ==
    \A e \in Entities : \A comp \in ComponentInputs : \A cb \in CallbackInputs :
        (comp = NoValue \/ cb # "function") =>
            LET r == setRenderComponent(State, e, comp, cb)
            IN /\ r.err = "InvalidArgument"
               /\ r.calls = 0
               /\ r.s = State

\* A registration failed on an entity that holds a component from an earlier
\* registration, after its position was written.
C9_Witness ==
    /\ last.op = "setRenderComponent"
    /\ last.err = "InvalidArgument"
    /\ renderComponent[last.e] = "mesh1"
    /\ renderComponentCallback[last.e] = "function"
    /\ rendered[last.e].component = "mesh1"
    /\ worldMatrixDirty[last.e]

\* C10: rotateTo returns true exactly when the entity's orientation after
\* the call equals the target orientation, and false exactly when it still
\* differs from it.
C10_TrueExactlyWhenAtTarget ==
    \A e \in Entities : \A target \in TargetInputs :
        \A delta \in DeltaInputs : \A tolerance \in ToleranceInputs :
            Facing(e, target) =>
                LET r == rotateTo(State, e, target, delta, tolerance)
                IN r.ret <=> (r.s.rotation[e] = targetRotation(State, e, target).q)

\* The call that first returns true when rotateTo is called again and
\* again with the same arguments, or the n-th call when none of n does.
RECURSIVE SteerUntilTrue(_, _, _, _, _, _)
SteerUntilTrue(s, e, target, delta, tolerance, n) ==
    LET r == rotateTo(s, e, target, delta, tolerance)
    IN IF r.ret \/ n <= 1 THEN r
       ELSE SteerUntilTrue(r.s, e, target, delta, tolerance, n - 1)

\* C11: with a fixed target and a positive turn budget, repeated rotateTo
\* calls eventually return true; when one returns true the orientation
\* equals the target orientation; and the call that follows returns true
\* again.
C11_SteeringConverges ==
    \A e \in Entities : \A target \in TargetInputs :
        \A delta \in DeltaInputs \ {0} : \A tolerance \in ToleranceInputs :
            Facing(e, target) =>
                LET r == SteerUntilTrue(State, e, target, delta, tolerance, MaxCalls)
                IN /\ r.ret
                   /\ r.s.rotation[e] = targetRotation(r.s, e, target).q
                   /\ rotateTo(r.s, e, target, delta, tolerance).ret

\* C12: when lookAt or rotateTo changes the orientation of an entity, the
\* entity is LocalDirty and WorldDirty and its children are WorldDirty after
\* the call, and the next worldMatrix read of the entity and of each child
\* reflects the new orientation.
C12_Dirtied(before, after, e) ==
    after.rotation[e] # before.rotation[e] =>
        /\ after.localMatrixDirty[e]
        /\ after.worldMatrixDirty[e]
        /\ \A c \in Range(after.children[e]) :
              /\ after.worldMatrixDirty[c]
              /\ getWorldMatrix(after, c).s.worldMatrix[c] = TrueWorld(after, c)
        /\ getWorldMatrix(after, e).s.worldMatrix[e] = TrueWorld(after, e)

C12_SteeringDirties ==
    \A e \in Entities : \A target \in TargetInputs :
        Facing(e, target) =>
            /\ C12_Dirtied(State, lookAt(State, e, target).s, e)
            /\ \A delta \in DeltaInputs : \A tolerance \in ToleranceInputs :
                  C12_Dirtied(State, rotateTo(State, e, target, delta, tolerance).s, e)

\* The identifiers of a sequence of entities
UuidsOf(q) == [i \in 1..Len(q) |-> IF q[i] \in Entities THEN uuid[q[i]] ELSE Undefined]

\* The record of e says what e is: its name, position and identifier, the
\* identifier of its parent, and the identifiers of its children and of its
\* neighbors in their order.
RecordMatches(e) ==
    LET json == Saved(e)
    IN /\ name[e] = json.name
       /\ position[e] = VecFromArray(json.position)
       /\ uuid[e] = json.uuid
       /\ json.parent = (IF parent[e] \in Entities THEN uuid[parent[e]] ELSE Null)
       /\ parent[e] \in Entities \cup {Null}
       /\ \A i \in 1..Len(children[e]) : children[e][i] \in Entities
       /\ \A i \in 1..Len(neighbors[e]) : neighbors[e][i] \in Entities
       /\ json.children = UuidsOf(children[e])
       /\ json.neighbors = UuidsOf(neighbors[e])

\* C13: a consistent acyclic graph that is exported entity by entity,
\* imported into new entities and resolved with the map of all of them has
\* the names, positions, identifiers, parents, children and neighbors of the
\* original, and parent and children are consistent again.  The records hold
\* the original (first conjunct) and the loaded graph is what the records
\* hold (second conjunct).
C13_RoundTrip ==
    /\ \A e \in Entities : (saved[e] # {} /\ stage[e] = "live") => RecordMatches(e)
    /\ (\A e \in Entities : stage[e] = "resolved") =>
          /\ \A e \in Entities : RecordMatches(e)
          /\ \A p \in Entities, x \in Entities :
                parent[x] = p <=> x \in Range(children[p])

\* A graph with a child, a neighbor and a name was saved, loaded and resolved.
C13_Witness ==
    /\ \A e \in Entities : stage[e] = "resolved"
    /\ \E e \in Entities : parent[e] # Null
    /\ \E e \in Entities : neighbors[e] # << >>
    /\ \E e \in Entities : name[e] = "a"

\* C14: the first read of worldMatrix after fromJSON, resolved or not,
\* completes normally and returns a matrix computed from the restored
\* position, rotation and scaling.
C14_FirstReadAfterImport ==
    \A e \in Entities :
        (stage[e] # "live" /\ localMatrixDirty[e] /\ worldMatrixDirty[e]) =>
            LET r == getWorldMatrix(State, e)
            IN /\ r.err = "none"
               /\ ~r.s.worldMatrixDirty[e]
               /\ r.s.localMatrix[e] = Compose(scaling[e], rotation[e], position[e])

\* C15: resolveReferences with a map that lacks an identifier does not fail;
\* a parent that is not in the map becomes no parent, no entry of children
\* or neighbors becomes undefined, every entry that is not an identifier is
\* an entity of the map, and the update of the world matrix that follows
\* walks the children without an error.
C15_MissingReferencesOmitted ==
    \A e \in Entities, gone \in DOMAIN EntityMap :
        ((\A x \in Entities : stage[x] # "live") /\ stage[e] = "imported") =>
            LET entities == MapWithout(gone)
                r == resolveReferences(State, e, entities)
                Kept(q) == \A i \in 1..Len(q) :
                              /\ q[i] # Undefined
                              /\ IsId(q[i]) \/ q[i] \in Range(entities)
            IN /\ r.err = "none"
               /\ parent[e] \notin DOMAIN entities => r.s.parent[e] = Null
               /\ Kept(r.s.children[e])
               /\ Kept(r.s.neighbors[e])
               /\ WalkError(r.s, e) = "none"

\* C16: the identifier of an entity is unset until uuid is read (toJSON
\* reads it); a read returns the identifier the entity has from then on,
\* the same one at every read, whatever writes, add and remove calls, reads
\* of the world matrix, ticks and exports come between; only fromJSON
\* replaces it.
C16_IdentifierStable ==
    [][\A e \in Entities :
          /\ (uuid[e] = Null /\ uuid'[e] # Null) =>
                last'.op \in {"uuid", "toJSON", "fromJSON"}
          /\ (uuid[e] # Null /\ uuid'[e] # uuid[e]) =>
                (last'.op = "fromJSON" /\ last'.e = e)
          /\ (last'.op = "uuid" /\ last'.e = e) =>
                /\ IsId(last'.x)
                /\ uuid'[e] = last'.x
                /\ uuid[e] # Null => last'.x = uuid[e]]_vars

\* A read of uuid returned the identifier that an earlier read generated, on
\* an entity that was written or added in the meantime or before.
C16_Witness ==
    /\ last.op = "uuid"
    /\ last.from # Null
    /\ last.x = last.from
    /\ \/ position[last.e] # Zero3
       \/ parent[last.e] # Null
       \/ children[last.e] # << >>

\* C17: sendMessage of an entity without a manager throws nothing, emits
\* one diagnostic, returns the entity and changes no field of any entity.
C17_SendWithoutManager ==
    \A e \in Entities, receiver \in Entities, message \in MessageInputs,
       delay \in DelayInputs, data \in DataInputs :
        manager[e] = NoValue =>
            LET r == sendMessage(State, e, receiver, message, delay, data)
            IN /\ r.err = "none"
               /\ r.ret = e
               /\ r.calls = 0
               /\ r.s.diagnostics = diagnostics + 1
               /\ [r.s EXCEPT !.diagnostics = diagnostics] = State

\* A sendMessage of an entity without a manager emitted a diagnostic.
C17_Witness ==
    /\ last.op = "sendMessage"
    /\ manager[last.e] = NoValue
    /\ last.err = "none"
    /\ diagnostics > 0

\* C18: sendMessage of an entity with a manager calls manager.sendMessage
\* once, with the entity, the receiver, the message, the delay and the data
\* in this order, with delay 0 and data null when they are omitted, and
\* emits no diagnostic.
C18_SendThroughManager ==
    \A e \in Entities, receiver \in Entities, message \in MessageInputs,
       delay \in DelayInputs, data \in DataInputs :
        manager[e] # NoValue =>
            LET r == sendMessage(State, e, receiver, message, delay, data)
                sent == r.s.outbox[Len(r.s.outbox)]
            IN /\ r.err = "none"
               /\ r.calls = 1
               /\ Len(r.s.outbox) = Len(outbox) + 1
               /\ SubSeq(r.s.outbox, 1, Len(outbox)) = outbox
               /\ Len(sent) = 5
               /\ sent[1] = e /\ sent[2] = receiver /\ sent[3] = message
               /\ sent[4] = (IF delay \in {100} THEN delay ELSE 0)
               /\ sent[5] = (IF data \in {123} THEN data ELSE Null)
               /\ r.s.diagnostics = diagnostics

\* A sendMessage without a delay reached the manager with delay 0.
C18_Witness ==
    /\ last.op = "sendMessage"
    /\ last.from = Undefined
    /\ manager[last.e] # NoValue
    /\ outbox # << >>
    /\ outbox[Len(outbox)][1] = last.e
    /\ outbox[Len(outbox)][4] = 0

\* C19: add with null or with no entity raises nothing and changes nothing:
\* the children, the parents and the dirty flags are what they were.
C19_AddNothing ==
    \A p \in Entities, x \in {Null, Undefined} :
        LET r == add(State, p, x)
        IN r.err = "none" /\ r.s = State

\* add(null) was called on an entity that has children.
C19_Witness ==
    /\ last.op = "add"
    /\ last.x = Null
    /\ last.err = "none"
    /\ children[last.e] # << >>

\* C20: a setter raises InvalidArgument exactly when the value is missing,
\* and then changes nothing; every vector and every quaternion is accepted,
\* the quaternions with x = 0 (the identity, the rotations about Y) included.
C20_Rejects(r, missing) ==
    /\ r.err = "InvalidArgument" <=> missing
    /\ missing => r.s = State

C20_SettersRejectOnlyMissing ==
    \A e \in Entities :
        /\ \A v \in PositionInputs : C20_Rejects(setPosition(State, e, v), v = << >>)
        /\ \A q \in RotationInputs : C20_Rejects(setRotation(State, e, q), q = NullQuat)
        /\ \A v \in ScalingInputs : C20_Rejects(setScaling(State, e, v), v = << >>)

\* C21: what the render callback throws during a synchronization reaches
\* the caller of update and the caller of setRenderComponent as it was
\* thrown; it is not swallowed.
C21_CallbackFailurePropagates ==
    \A e \in Entities :
        /\ \A comp \in ComponentInputs \ {NoValue} :
              LET r == setRenderComponent(State, e, comp, "throws")
              IN r.err = "CallbackError" /\ r.calls = 1
        /\ (renderComponent[e] # NoValue /\ renderComponentCallback[e] = "throws"
              /\ transformDirty[e]) =>
              LET r == update(State, e)
              IN r.err = "CallbackError" /\ r.calls = 1

\* A tick ran a callback that throws and the caller got what it threw.
C21_Witness ==
    /\ last.op = "update"
    /\ last.err = "CallbackError"
    /\ last.calls = 1
    /\ renderComponentCallback[last.e] = "throws"

\* The characters written so far match the pattern.
MatchesPattern(id) ==
    \A i \in 1..Len(id) :
        IF Template[i] = "x" THEN id[i] \in Range(HexDigits)
        ELSE IF Template[i] = "y" THEN id[i] \in {"8", "9", "a", "b"}
        ELSE id[i] = Template[i]

\* C22: a generated identifier matches xxxxxxxx-xxxx-4xxx-yxxx-xxxxxxxxxxxx:
\* whatever is drawn, an x becomes one lowercase hexadecimal digit and the y
\* one of 8, 9, a, b; the dashes and the 4 stay.
C22_IdentifierFormat ==
    /\ Len(draft) <= Len(Template)
    /\ MatchesPattern(draft)
    /\ Len(draft) < Len(Template) =>
          \A r \in Draws :
              MatchesPattern(Append(draft, replaceChar(Template[Len(draft) + 1], r)))

\* An identifier was written to its end.
C22_Witness ==
    /\ Len(draft) = Len(Template)
    /\ draft[20] \in {"8", "9", "a", "b"}
    /\ draft[1] # draft[2]

\* The descendants of e, for hierarchies without a cycle.
Descendants(e) == {d \in Entities : e \in Ancestors(d)}

\* C23: a setter write that changes the stored value makes the entity
\* LocalDirty and WorldDirty and every descendant, at every depth,
\* WorldDirty, and leaves the LocalDirty flags of the descendants alone.
C23_Dirtied(r, e, changed) ==
    changed =>
        /\ r.s.localMatrixDirty[e]
        /\ r.s.worldMatrixDirty[e]
        /\ \A d \in Descendants(e) :
              /\ r.s.worldMatrixDirty[d]
              /\ r.s.localMatrixDirty[d] = localMatrixDirty[d]

C23_WriteDirtiesAllDescendants ==
    \A e \in Entities :
        /\ \A v \in PositionInputs \ {<< >>} :
              LET r == setPosition(State, e, v)
              IN C23_Dirtied(r, e, r.s.position[e] # position[e])
        /\ \A q \in RotationInputs \ {NullQuat} :
              LET r == setRotation(State, e, q)
              IN C23_Dirtied(r, e, r.s.rotation[e] # rotation[e])
        /\ \A v \in ScalingInputs \ {<< >>} :
              LET r == setScaling(State, e, v)
              IN C23_Dirtied(r, e, r.s.scaling[e] # scaling[e])

\* The world position that a read of worldMatrix of d gives in s, and the one
\* that the current transforms of d and of its ancestors make.
ReadPosition(s, d) == TranslationOf(getWorldMatrix(s, d).s.worldMatrix[d])
TruePosition(s, d) == TranslationOf(TrueWorld(s, d))

\* C24: when add or remove moves an entity, the next read of worldMatrix of
\* every descendant of the moved entity gives its world transform under the
\* new chain of ancestors, here its world position, also when the world
\* matrix of the descendant was clean before the move.
C24_Moved(r, x) ==
    \A d \in Descendants(x) :
        ReadPosition(State, d) = TruePosition(State, d) =>
            ReadPosition(r.s, d) = TruePosition(r.s, d)

C24_MoveDirtiesSubtree ==
    \A p \in Entities, x \in Entities :
        /\ KeepsAcyclic(p, x) => C24_Moved(add(State, p, x), x)
        /\ C24_Moved(remove(State, p, x), x)

\* C25: the local matrix of an entity that is not LocalDirty is the
\* composition of its current position, rotation and scaling, also after
\* writes into the vectors that the getters return.
C25_CleanLocalMatrixIsCurrent ==
    \A e \in Entities :
        ~localMatrixDirty[e] =>
            localMatrix[e] = Compose(scaling[e], rotation[e], position[e])

\* No entity of s is LocalDirty without being WorldDirty.
LocalDirtyImpliesWorldDirty(s) ==
    \A e \in Entities : s.localMatrixDirty[e] => s.worldMatrixDirty[e]

\* C26: in every reachable state LocalDirty implies WorldDirty, and every
\* call keeps it so: setter writes, add and remove, updates of the local and
\* of the world matrix, fromJSON and resolveReferences.
C26_LocalDirtyImpliesWorldDirty ==
    /\ LocalDirtyImpliesWorldDirty(State)
    /\ \A e \in Entities :
          /\ \A v \in PositionInputs : LocalDirtyImpliesWorldDirty(setPosition(State, e, v).s)
          /\ \A q \in RotationInputs : LocalDirtyImpliesWorldDirty(setRotation(State, e, q).s)
          /\ \A v \in ScalingInputs : LocalDirtyImpliesWorldDirty(setScaling(State, e, v).s)
          /\ \A x \in Entities \cup {Null} :
                /\ LocalDirtyImpliesWorldDirty(add(State, e, x).s)
                /\ LocalDirtyImpliesWorldDirty(remove(State, e, x).s)
          /\ LocalDirtyImpliesWorldDirty(updateLocalMatrix(State, e))
          /\ LocalDirtyImpliesWorldDirty(updateWorldMatrix(State, e).s)
          /\ \A x \in Entities : \A json \in saved[x] :
                LocalDirtyImpliesWorldDirty(fromJSON(State, e, json).s)
          /\ \A gone \in {Null} \cup DOMAIN EntityMap :
                LocalDirtyImpliesWorldDirty(resolveReferences(State, e, MapWithout(gone)).s)

\* A loaded and resolved entity was read and is clean, another is dirty.
C26_Witness ==
    /\ \E e \in Entities :
          stage[e] = "resolved" /\ ~worldMatrixDirty[e] /\ ~localMatrixDirty[e]
    /\ \E e \in Entities :
          stage[e] = "resolved" /\ worldMatrixDirty[e] /\ localMatrixDirty[e]

\* C27: _updateWorldMatrix of a WorldDirty entity of an acyclic hierarchy
\* leaves the entity neither LocalDirty nor WorldDirty, with a world matrix
\* that is its local matrix, composed with the world matrix of its parent
\* when it has one, this one being up to date; it leaves no ancestor
\* WorldDirty, and it leaves WorldDirty every child of the entity and of its
\* dirty ancestors that is not itself on the path that was recomputed.
C27_UpdateWorldMatrix ==
    \A e \in Entities :
        worldMatrixDirty[e] =>
            LET r == updateWorldMatrix(State, e)
                p == parent[e]
                path == {e} \cup Ancestors(e)
            IN /\ r.err = "none"
               /\ ~r.s.localMatrixDirty[e]
               /\ ~r.s.worldMatrixDirty[e]
               /\ r.s.worldMatrix[e] =
                     (IF p = Null THEN r.s.localMatrix[e]
                      ELSE Multiply(r.s.localMatrix[e], r.s.worldMatrix[p]))
               /\ p # Null => TranslationOf(r.s.worldMatrix[p]) = TruePosition(r.s, p)
               /\ \A a \in Ancestors(e) : ~r.s.worldMatrixDirty[a]
               /\ \A x \in path : \A c \in Range(children[x]) \ path :
                     worldMatrixDirty[x] => r.s.worldMatrixDirty[c]

\* C28: _updateWorldMatrix, and so a read of worldMatrix, of an entity that
\* is not WorldDirty changes nothing; _updateLocalMatrix of an entity whose
\* local matrix is the composition of its current transform leaves the local
\* matrix and WorldDirty as they are; the second of two reads in a row
\* changes nothing and returns the matrix of the first.
C28_CleanUpdatesChangeNothing ==
    \A e \in Entities :
        /\ ~worldMatrixDirty[e] =>
              /\ updateWorldMatrix(State, e) = Result(State, "none", 0)
              /\ getWorldMatrix(State, e) = Result(State, "none", 0)
        /\ localMatrix[e] = Compose(scaling[e], rotation[e], position[e]) =>
              LET s1 == updateLocalMatrix(State, e)
              IN /\ s1.localMatrix[e] = localMatrix[e]
                 /\ s1.worldMatrixDirty[e] = worldMatrixDirty[e]
        /\ LET first == getWorldMatrix(State, e)
               second == getWorldMatrix(first.s, e)
           IN first.err = "none" =>
                 /\ second.err = "none"
                 /\ second.s = first.s

\* A child that has been moved and read is clean, and so is its parent.
C28_Witness ==
    \E e \in Entities :
        /\ ~worldMatrixDirty[e]
        /\ parent[e] # Null
        /\ ~worldMatrixDirty[parent[e]]
        /\ position[e] # Zero3
        /\ localMatrix[e] = Compose(scaling[e], rotation[e], position[e])

\* The dirty flags and the matrices of the entities of set are in s what
\* they are now.
CacheUnchanged(s, set) ==
    \A a \in set :
        /\ s.localMatrixDirty[a] = localMatrixDirty[a]
        /\ s.worldMatrixDirty[a] = worldMatrixDirty[a]
        /\ s.localMatrix[a] = localMatrix[a]
        /\ s.worldMatrix[a] = worldMatrix[a]

\* C29: a setter write on an entity, and add and remove of an entity, change
\* neither the dirty flags nor the matrices of an ancestor of the entity, of
\* its old parent or of its new parent.
C29_AncestorsNotInvalidated ==
    /\ \A e \in Entities :
          /\ \A v \in PositionInputs : CacheUnchanged(setPosition(State, e, v).s, Ancestors(e))
          /\ \A q \in RotationInputs : CacheUnchanged(setRotation(State, e, q).s, Ancestors(e))
          /\ \A v \in ScalingInputs : CacheUnchanged(setScaling(State, e, v).s, Ancestors(e))
    /\ \A p \in Entities, x \in Entities :
          /\ KeepsAcyclic(p, x) =>
                CacheUnchanged(add(State, p, x).s, Ancestors(x) \cup {p} \cup Ancestors(p))
          /\ x # p =>
                CacheUnchanged(remove(State, p, x).s, Ancestors(x) \cup {p} \cup Ancestors(p))

\* A child whose matrices had been computed was written, and its parent is
\* still clean.
C29_Witness ==
    \E e \in Entities :
        /\ parent[e] # Null
        /\ ~worldMatrixDirty[parent[e]]
        /\ localMatrixDirty[e]
        /\ localMatrix[e] # ZeroMatrix
        /\ position[e] # Zero3

\* C30: a call of _updateWorldMatrix on an entity recomputes and cleans
\* every WorldDirty ancestor before the entity composes its own world
\* matrix: after the call no ancestor is WorldDirty, and the world matrix of
\* an entity that was recomputed is its local matrix composed with the world
\* matrix of a parent that is not WorldDirty.
C30_AncestorsResolvedFirst ==
    \A e \in Entities :
        LET r == updateWorldMatrix(State, e)
            p == parent[e]
        IN r.err = "none" =>
              /\ \A a \in Ancestors(e) : ~r.s.worldMatrixDirty[a]
              /\ (worldMatrixDirty[e] /\ p # Null) =>
                    r.s.worldMatrix[e] = Multiply(r.s.localMatrix[e], r.s.worldMatrix[p])

\* The fields of x that _updateWorldMatrix never writes.
SameButCache(s, x) ==
    /\ s.parent[x] = parent[x] /\ s.children[x] = children[x]
    /\ s.position[x] = position[x] /\ s.rotation[x] = rotation[x]
    /\ s.scaling[x] = scaling[x]
    /\ s.renderComponent[x] = renderComponent[x]
    /\ s.renderComponentCallback[x] = renderComponentCallback[x]
    /\ s.rendered[x] = rendered[x]

\* The matrices and flags of x apart from _worldMatrixDirty.
SameMatrices(s, x) ==
    /\ s.localMatrix[x] = localMatrix[x] /\ s.worldMatrix[x] = worldMatrix[x]
    /\ s.localMatrixDirty[x] = localMatrixDirty[x]
    /\ s.transformDirty[x] = transformDirty[x]

\* C31: in an acyclic hierarchy updateWorldMatrix returns, recomputes each
\* entity of the ancestor chain at most once, and touches only that chain
\* and the direct children of the entities it recomputed.
C31_UpdateIsBounded ==
    \A e \in Entities :
        LET r == updateWorldMatrix(State, e)
            chain == {e} \cup Ancestors(e)
            trace == recomputed(State, e, {})
            done == Range(trace)
            kids == UNION {Range(children[x]) : x \in done}
        IN /\ r.err = "none"
           /\ Len(trace) = Cardinality(done)
           /\ done \subseteq chain
           /\ \A x \in Entities : SameButCache(r.s, x)
           /\ \A x \in Entities \ done :
                 SameMatrices(r.s, x)
           /\ \A x \in Entities \ (done \cup kids) :
                 r.s.worldMatrixDirty[x] = worldMatrixDirty[x]
           /\ \A x \in done : ~r.s.worldMatrixDirty[x] \/ x \in kids

\* An update that recomputes the entity and its parent and returns early on
\* a clean grandparent.
C31_Witness ==
    \E e \in Entities :
        /\ Len(recomputed(State, e, {})) = 2
        /\ Ancestors(e) \ Range(recomputed(State, e, {})) # {}

\* The entities that the parent references of s lead to from e within n
\* steps.
RECURSIVE Above(_, _, _)
Above(s, e, n) ==
    IF n = 0 \/ s.parent[e] \notin Entities THEN {}
    ELSE {s.parent[e]} \cup Above(s, s.parent[e], n - 1)

OnCycle(s, e) == e \in Above(s, e, NumEntities)

\* C32: add(x) returns normally when x is the receiver or one of its
\* ancestors and leaves x on a cyclic parent chain; a world-matrix update
\* started on a WorldDirty member of a cycle recurses without bound.
C32_CycleNeverCompletes ==
    /\ \A p \in Entities : \A x \in {p} \cup Above(State, p, NumEntities) :
          LET r == add(State, p, x)
          IN r.err = "none" /\ r.s.parent[x] = p /\ OnCycle(r.s, x)
    /\ \A e \in Entities :
          OnCycle(State, e) /\ worldMatrixDirty[e] =>
              updateWorldMatrix(State, e).err = "RangeError"

\* The outcome of rotateTo in a state where the angle to the target is at
\* least the tolerance and more than the turn budget.
C33_PartialStep(e, target, delta, tolerance) ==
    LET t == targetRotation(State, e, target)
        angle == AngleBetween(t.s.rotation[e], t.q)
        budget == MaxTurnRate * delta
        r == rotateTo(State, e, target, delta, tolerance)
    IN Facing(e, target) /\ budget < angle /\ tolerance <= angle =>
           /\ ~r.ret
           /\ AngleBetween(r.s.rotation[e], t.q) = angle - budget
           /\ budget = 0 => r.s.rotation[e] = rotation[e]

\* C33: a rotateTo call whose turn budget maxTurnRate * delta is below the
\* angle to the target returns false and reduces the remaining angle by
\* exactly the budget, never moving past the target; with a budget of 0 the
\* orientation is unchanged.
C33_BudgetLimitsTurn ==
    \A e \in Entities : \A target \in TargetInputs :
        \A delta \in DeltaInputs : \A tolerance \in ToleranceInputs :
            C33_PartialStep(e, target, delta, tolerance)

\* C34: in rotateTo an angle below the tolerance and an angle that is NaN
\* are handled alike: the orientation becomes exactly the target orientation
\* and the call returns true without an error, whatever the turn budget.
C34_SnapsBelowToleranceAndOnNaN ==
    \A e \in Entities : \A target \in SnapTargetInputs :
        \A delta \in DeltaInputs : \A tolerance \in ToleranceInputs :
            LET t == targetRotation(State, e, target)
                r == rotateTo(State, e, target, delta, tolerance)
                nan == IsNaN(rotation[e]) \/ IsNaN(t.q)
            IN Steerable(e, target)
               /\ (nan \/ AngleBetween(rotation[e], t.q) < tolerance) =>
                   /\ r.ret
                   /\ r.err = "none"
                   /\ r.s.rotation[e] = t.q

\* An entity whose orientation is NaN after a call with a NaN target, and
\* an entity that is off its target by less than the tolerance.
C34_Witness ==
    /\ \E e \in Entities : IsNaN(rotation[e])
    /\ \E e \in Entities : \E target \in SnapTargetInputs \ {NaNVec} :
          /\ Facing(e, target)
          /\ ~IsNaN(rotation[e])
          /\ rotation[e] # targetRotation(State, e, target).q
          /\ AngleBetween(rotation[e], targetRotation(State, e, target).q) < 3

\* C35: after fromJSON the entity is LocalDirty and WorldDirty whatever the
\* flags were and whatever matrices the record holds; parent is the
\* identifier of the record, children and neighbors are the identifier
\* sequences of the record in their order, and the identifier of the entity
\* is that of the record.
C35_ImportMarksDirtyKeepsIds ==
    \A e \in Entities : \A json \in JsonInputs \cup UNION {saved[x] : x \in Entities} :
        LET r == fromJSON(State, e, json)
        IN /\ r.err = "none"
           /\ r.s.localMatrixDirty[e] /\ r.s.worldMatrixDirty[e]
           /\ r.s.parent[e] = json.parent
           /\ r.s.children[e] = json.children
           /\ r.s.neighbors[e] = json.neighbors
           /\ r.s.uuid[e] = json.uuid

\* An imported entity that holds the identifier of its parent and a matrix
\* snapshot, while an entity that is still to be replaced is clean.
C35_Witness ==
    /\ \E e \in Entities :
          /\ stage[e] = "imported" /\ IsId(parent[e])
          /\ worldMatrix[e] # ZeroMatrix
          /\ localMatrixDirty[e] /\ worldMatrixDirty[e]
    /\ \E x \in Entities :
          /\ stage[x] = "live" /\ ~localMatrixDirty[x] /\ ~worldMatrixDirty[x]
          /\ \E json \in saved[x] : json.children # << >>

\* The tick after a tick in which the callback threw.
C36_Retried(e) ==
    LET r == update(State, e)
        again == update(r.s, e)
    IN /\ r.err = "CallbackError"
       /\ r.s.transformDirty[e]
       /\ again.calls = 1
       /\ ReadPosition(r.s, e) = TruePosition(r.s, e)

\* C36: when the render callback throws during the synchronization of
\* update, the synchronization stays pending: the next update invokes the
\* callback again, with the current world transform, here the world
\* position.
C36_FailedPassStaysPending ==
    \A e \in Entities :
        (renderComponent[e] # NoValue /\ renderComponentCallback[e] = "throws"
            /\ transformDirty[e]) => C36_Retried(e)

\* C37: resolveReferences run a second time with the same map leaves parent,
\* children and neighbors as they were after the first run.
C37_ResolveIsIdempotent ==
    \A e \in Entities : \A gone \in {Null} \cup DOMAIN EntityMap :
        stage[e] = "imported" =>
            LET first == resolveReferences(State, e, MapWithout(gone))
                second == resolveReferences(first.s, e, MapWithout(gone))
            IN /\ second.err = "none"
               /\ second.s.parent[e] = first.s.parent[e]
               /\ second.s.children[e] = first.s.children[e]
               /\ second.s.neighbors[e] = first.s.neighbors[e]

\* The matrix cache of every entity.
CacheOf(s) ==
    <<s.localMatrix, s.worldMatrix, s.localMatrixDirty, s.worldMatrixDirty,
      s.transformDirty>>

\* C38: toJSON leaves the transforms, parent, children, name and neighbors
\* of every entity unchanged.  It assigns an identifier to the exported
\* entity, its parent, its children and its neighbors where they have none,
\* and its one other effect is that of the world-matrix read: the cache of
\* the entity and of its ancestors is brought up to date and their direct
\* children become WorldDirty.
C38_ExportFrame ==
    \A e \in Entities :
        LET r == toJSON(State, e)
            w == updateWorldMatrix(State, e)
            chain == {e} \cup Above(State, e, NumEntities)
            kids == UNION {Range(children[x]) : x \in chain}
            named == {e, parent[e]} \cup Range(children[e]) \cup Range(neighbors[e])
        IN /\ \A x \in Entities :
                 /\ SameButCache(r.s, x)
                 /\ r.s.name[x] = name[x] /\ r.s.neighbors[x] = neighbors[x]
                 /\ r.s.uuid[x] # uuid[x] =>
                       x \in named /\ uuid[x] = Null /\ IsId(r.s.uuid[x])
           /\ r.s.manager = manager /\ r.s.outbox = outbox
           /\ CacheOf(r.s) \in {CacheOf(State), CacheOf(w.s)}
           /\ \A x \in Entities \ chain : SameMatrices(r.s, x)
           /\ \A x \in Entities \ (chain \cup kids) :
                 r.s.worldMatrixDirty[x] = worldMatrixDirty[x]
           /\ r.err = "none" =>
                 /\ \A x \in named \cap Entities : IsId(r.s.uuid[x])
                 /\ ~r.s.localMatrixDirty[e] /\ ~r.s.worldMatrixDirty[e]

\* An export that names the entity, its parent, a child and a neighbor, none
\* of which had an identifier, and brings a dirty chain up to date.
C38_Witness ==
    \E e \in Entities :
        /\ toJSON(State, e).err = "none"
        /\ parent[e] \in Entities /\ worldMatrixDirty[parent[e]]
        /\ neighbors[e] # << >>
        /\ \A x \in ({e, parent[e]} \cup Range(neighbors[e])) : uuid[x] = Null
        /\ \E x \in Entities : saved[x] # {}

\* C39: right after lookAt(target), rotateTo with the same target returns
\* true for every delta and leaves the orientation as lookAt set it, for
\* entities with and without a parent.
C39_LookAtThenRotateTo ==
    \A e \in Entities : \A target \in TargetInputs :
        \A delta \in DeltaInputs : \A tolerance \in ToleranceInputs :
            Facing(e, target) =>
                LET looked == lookAt(State, e, target)
                    r == rotateTo(looked.s, e, target, delta, tolerance)
                IN /\ looked.err = "none"
                   /\ looked.s.rotation[e] = targetRotation(State, e, target).q
                   /\ r.ret
                   /\ r.s.rotation[e] = looked.s.rotation[e]

====
